---- MODULE Spec2Model ----
(***************************************************************************)
(* Retrieval / ranking subsystem of the regulatory-PDF chatbot.            *)
(*                                                                         *)
(*  - UnifiedSearchEngine.removeDuplicatesAndRank   (ranker)               *)
(*  - ContextSelector.applyContextLengthLimit       (context optimizer)    *)
(*  - UnifiedSearchEngine.scoreChunksByMultipleStrategies and its three    *)
(*    signals (scorer)                                                     *)
(*                                                                         *)
(* Each component has its own specification over its own group of         *)
(* variables, the other groups staying idle: SpecRank, SpecLimit, and for  *)
(* the scorer SpecSignals (one chunk, every question analysis) and         *)
(* SpecScore (several chunks, every batch size).                           *)
(***************************************************************************)
EXTENDS Integers, Sequences, FiniteSets, TLC

VARIABLES
  \* ranker: removeDuplicatesAndRank(scoredChunks, maxChunks)
  rkScored,      \* argument scoredChunks
  rkMaxChunks,   \* argument maxChunks
  rkResult,      \* returned array
  rkPc,          \* "idle" | "called" | "returned"
  \* context optimizer: applyContextLengthLimit(chunks, maxChunks)
  clChunks,      \* argument chunks
  clMaxChunks,   \* argument maxChunks
  clResult,      \* returned array
  clPc,          \* "idle" | "called" | "returned"
  \* scorer: scoreChunksByMultipleStrategies(chunks, questionAnalysis)
  scChunks,      \* argument chunks (PDFChunk[])
  scAnalysis,    \* argument questionAnalysis
  scEmbedReply,  \* what embedText answers: <<vector>>, or <<>> when it throws
  scBatchSize,   \* BATCH_SIZE of this run
  scConverted,   \* convertedChunks
  scQuestionEmbedding,  \* questionEmbedding: <<vector>>, or <<>> for null
  scI,           \* loop variable i
  scResults,     \* results
  scPc,          \* "idle" | "called" | "scoring" | "returned"
  \* response parser: parseAnalysisResponse(responseText)
  paText,        \* argument responseText
  paResult,      \* the returned QuestionAnalysis, <<>> before and on a throw
  paPc,          \* "idle" | "called" | "returned" | "threw"
  \* analyzer: questionAnalyzer.analyzeQuestion(message)
  anEnv,         \* the five key slots of the environment, TRUE = a key is set
  anTried,       \* the slots of the credentials tried so far, in order
  anReplies,     \* what the completion service did on each attempt
  anResult,      \* <<analysis>> once an attempt succeeded
  anPc,          \* "idle" | "trying" | "returned" | "failed"
  \* request: geminiService.generateResponseWithSources(message)
  rqHasKey,      \* the service's own getNextAvailableKey() returns a key
  rqCached,      \* cachedSourceText is set
  rqSelectCalls, \* calls of contextSelector.selectRelevantContext
  rqStoreCalls,  \* chunk-store searches made by the selection
  rqScoreCalls,  \* relevance-score computations made by the selection
  rqError,       \* which step's error the request was rejected with
  rqPc,          \* "idle" | "called" | "keyed" | "loaded" | "analyzing"
                 \* | "selected" | "done" | "rejected"
  \* chunk store: the collections pdf_documents and pdf_chunks
  stDocuments,   \* the stored documents, in collection order
  stChunks,      \* the stored chunks, in collection order
  \* store adapter: one call of searchChunksByKeywords / searchChunksByText
  adOp,          \* "keywords" | "text"
  adTerms,       \* the keywords, or <<searchText>>
  adDocumentId,  \* <<>> when the argument is left out, else <<documentId>>
  adLimit,       \* limitCount
  adFailed,      \* getDocs rejected
  adResult,      \* the returned chunks
  adPc,          \* "idle" | "called" | "returned"
  \* context selection: ContextSelector.selectRelevantContexts
  slAnalysis,    \* argument questionAnalysis
  slAllChunks,   \* argument allChunks: the caller's array of local chunks
  slMaxChunks,   \* argument maxChunks
  slCalls,       \* the store calls made so far: [op, failed, returned]
  slFirestoreChunks, \* firestoreChunks
  slResult,      \* <<the returned chunks>> once returned
  slPc,          \* "idle" | "called" | "keyworded" | "searched" | "returned"
  \* unified search: UnifiedSearchEngine.executeUnifiedSearch
  usAnalysis,    \* argument questionAnalysis
  usMaxChunks,   \* argument maxChunks
  usCap,         \* the optimizer's per-chunk length cap
  usBudget,      \* the optimizer's total length budget
  usCalls,       \* the store calls made so far: [op, failed, returned]
  usDocuments,   \* allDocuments of fetchChunksInBulk, <<>> before the call
  usDocIndex,    \* position of the for-of loop over allDocuments, 0 before
  usAllChunks,   \* allChunks
  usScored,      \* scoredChunks
  usUnique,      \* uniqueChunks
  usResult,      \* <<the returned UnifiedSearchResult>> once returned
  usError,       \* the error the call was rejected with, "none" if none
  usStage,       \* "Idle" | "Fetching" | "Scoring" | "Ranking"
                 \* | "Optimizing" | "Done" | "Aborted"
  \* advanced search: AdvancedSearchQualityService.applyContextLengthLimit
  avChunks,      \* argument chunks: the optimizer's output
  avI,           \* how many chunks the for-of loop has taken
  avTotalLength, \* totalLength
  avLimited,     \* limitedChunks
  avPc,          \* "idle" | "limiting" | "returned"
  \* key rotation: QuestionAnalyzer.getNextAvailableKey
  krEnv,         \* the five key slots of the environment, TRUE = a key is set
  krIndex,       \* currentKeyIndex
  krSelected,    \* what the calls so far returned: a slot, or 0 for null
  \* chunk splitter: splitIntoChunks / processChunksStreaming
  spText,        \* argument text: [length, ends]
  spChunkSize,   \* chunkSize
  spOverlap,     \* overlap
  spStart,       \* start (position in processChunksStreaming)
  spChunks,      \* chunks pushed (saved) so far: [startPos, endPos]
  spPc,          \* "idle" | "splitting" | "returned"
  \* chat window: the ChatWindow component
  cwVersion,     \* which handleSendMessage: "first" | "requestId"
  cwNow,         \* Date.now() at the latest handleSendMessage call
  cwMessages,    \* state messages
  cwIsProcessing,\* state isProcessing
  cwIsCancelling,\* state isCancelling
  cwRequests,    \* the handleSendMessage calls made so far, oldest first
  \* cache: FirestoreCacheService over localStorage
  caStorage,     \* localStorage: what is stored under each key
  caNow,         \* Date.now(), in days
  caOps,         \* how many operations were made
  caBefore,      \* localStorage as the latest operation found it
  caLast         \* the latest operation and what it returned

rkVars == <<rkScored, rkMaxChunks, rkResult, rkPc>>
clVars == <<clChunks, clMaxChunks, clResult, clPc>>
scVars == <<scChunks, scAnalysis, scEmbedReply, scBatchSize, scConverted,
            scQuestionEmbedding, scI, scResults, scPc>>
paVars == <<paText, paResult, paPc>>
anVars == <<anEnv, anTried, anReplies, anResult, anPc>>
rqVars == <<rqHasKey, rqCached, rqSelectCalls, rqStoreCalls, rqScoreCalls,
            rqError, rqPc>>
stVars == <<stDocuments, stChunks>>
adVars == <<adOp, adTerms, adDocumentId, adLimit, adFailed, adResult, adPc>>
slVars == <<slAnalysis, slAllChunks, slMaxChunks, slCalls, slFirestoreChunks,
            slResult, slPc>>
usVars == <<usAnalysis, usMaxChunks, usCap, usBudget, usCalls, usDocuments,
            usDocIndex, usAllChunks, usScored, usUnique, usResult, usError,
            usStage>>
avVars == <<avChunks, avI, avTotalLength, avLimited, avPc>>
krVars == <<krEnv, krIndex, krSelected>>
spVars == <<spText, spChunkSize, spOverlap, spStart, spChunks, spPc>>
cwVars == <<cwVersion, cwNow, cwMessages, cwIsProcessing, cwIsCancelling, cwRequests>>
caVars == <<caStorage, caNow, caOps, caBefore, caLast>>
\* the retrieval core, and the components around it
coreVars == <<rkVars, clVars, scVars, paVars, anVars, rqVars, stVars, adVars,
              slVars, usVars>>
outerVars == <<avVars, krVars, spVars, cwVars, caVars>>
vars == <<coreVars, outerVars>>

----------------------------------------------------------------------------
(* Generic helpers                                                          *)

Max(a, b) == IF a >= b THEN a ELSE b
Min(a, b) == IF a <= b THEN a ELSE b

SeqsUpTo(S, n) == UNION {[1..k -> S] : k \in 0..n}

\* Array.prototype.slice(begin, end) for integer arguments: a negative index
\* counts from the end of the array, and both are clamped to [0, length].
JsSlice(s, begin, end) ==
  LET len == Len(s)
      k   == IF begin < 0 THEN Max(len + begin, 0) ELSE Min(begin, len)
      f   == IF end < 0 THEN Max(len + end, 0) ELSE Min(end, len)
  IN  IF f <= k THEN <<>> ELSE SubSeq(s, k + 1, f)

----------------------------------------------------------------------------
(* Ranker: UnifiedSearchEngine.removeDuplicatesAndRank                      *)

MaxScored == 3          \* longest scoredChunks array explored
MaxCap == 3             \* maxChunks ranges over -MaxCap..MaxCap

\* chunk ids; "" is the key a chunk without an id gets (scored.chunk.id || '')
ChunkIds == {"", "c1", "c2"}
\* total scores in tenths (0.3 and 0.7 of the spec's example; a negative one,
\* which a negative cosine can produce)
RankScores == {-3, 0, 3, 7}
\* one scored entry; the chunk is represented by its id
ScoredEntries == [id : ChunkIds, score : RankScores]

\* uniqueMap.get(id): position of the entry with that key, 0 when absent
MapIndex(m, id) ==
  IF \E i \in 1..Len(m) : m[i].id = id
  THEN CHOOSE i \in 1..Len(m) : m[i].id = id
  ELSE 0

\* a Map keeps a key at the position of its first insertion
MapSet(m, e) ==
  LET i == MapIndex(m, e.id)
  IN  IF i = 0 THEN Append(m, e) ELSE [m EXCEPT ![i] = e]

\* faulty variant: the later entry always replaces the earlier one
UniqueMapPutKeepLast(m, scored) == MapSet(m, scored)

\* body of the forEach: keep the entry with the higher score, first on ties
UniqueMapPut(m, scored) ==
  LET i == MapIndex(m, scored.id)
  IN  IF i = 0 \/ m[i].score < scored.score THEN MapSet(m, scored) ELSE m

RECURSIVE UniqueMapFrom(_, _, _)
UniqueMapFrom(scoredChunks, i, m) ==
  IF i > Len(scoredChunks) THEN m
  ELSE UniqueMapFrom(scoredChunks, i + 1, UniqueMapPut(m, scoredChunks[i]))

\* Array.from(uniqueMap.values()): the entries in insertion order
UniqueMapValues(scoredChunks) == UniqueMapFrom(scoredChunks, 1, <<>>)

\* faulty variant: ascending comparator
CompareScoreAscending(a, b) == a.score - b.score

\* the comparator (a, b) => b.score - a.score
CompareScore(a, b) == b.score - a.score

\* stable insertion of e: after every x that does not sort after it
InsertSorted(s, e) ==
  LET before == {i \in 1..Len(s) : CompareScore(s[i], e) <= 0}
      k == IF before = {} THEN 0
           ELSE CHOOSE i \in before :
                  /\ \A j \in 1..i : j \in before
                  /\ (i + 1 \in 1..Len(s) => i + 1 \notin before)
  IN  SubSeq(s, 1, k) \o <<e>> \o SubSeq(s, k + 1, Len(s))

RECURSIVE SortFrom(_, _, _)
SortFrom(s, i, acc) ==
  IF i > Len(s) THEN acc ELSE SortFrom(s, i + 1, InsertSorted(acc, s[i]))

\* Array.prototype.sort with CompareScore (stable)
SortByScore(s) == SortFrom(s, 1, <<>>)

RemoveDuplicatesAndRank(scoredChunks, maxChunks) ==
  JsSlice(SortByScore(UniqueMapValues(scoredChunks)), 0, maxChunks)

RankIdle ==
  /\ rkScored = <<>>
  /\ rkMaxChunks = 0
  /\ rkResult = <<>>
  /\ rkPc = "idle"

RankInit ==
  /\ rkScored \in SeqsUpTo(ScoredEntries, MaxScored)
  /\ rkMaxChunks \in (-MaxCap)..MaxCap
  /\ rkResult = <<>>
  /\ rkPc = "called"

RankCall ==
  /\ rkPc = "called"
  /\ rkResult' = RemoveDuplicatesAndRank(rkScored, rkMaxChunks)
  /\ rkPc' = "returned"
  /\ UNCHANGED <<rkScored, rkMaxChunks>>

----------------------------------------------------------------------------
(* Claims about the ranker (checked under SpecRank)                         *)

IdsOf(s) == {s[i].id : i \in 1..Len(s)}
ScoresOfId(s, id) == {s[i].score : i \in {j \in 1..Len(s) : s[j].id = id}}
IsMaxOf(x, S) == x \in S /\ \A y \in S : y <= x

\* C1: the ranker's output holds no two entries with the same chunk id, and
\* the score of every id in the output is the maximum of the scores the input
\* holds for that id.
C1_DedupKeepsMax ==
  rkPc = "returned" =>
    /\ \A i, j \in 1..Len(rkResult) :
         rkResult[i].id = rkResult[j].id => i = j
    /\ \A i \in 1..Len(rkResult) :
         IsMaxOf(rkResult[i].score, ScoresOfId(rkScored, rkResult[i].id))

\* the same id scored twice, lower score last, and the id is in the output
C1_Witness ==
  /\ rkPc = "returned"
  /\ \E i, j \in 1..Len(rkScored) :
       /\ i < j
       /\ rkScored[i].id = rkScored[j].id
       /\ rkScored[i].score = 7
       /\ rkScored[j].score = 3
       /\ \E k \in 1..Len(rkResult) :
            rkResult[k].id = rkScored[i].id /\ rkResult[k].score = 7
       /\ Cardinality({k \in 1..Len(rkResult) :
                         rkResult[k].id = rkScored[i].id}) = 1

\* C2: the ranker's output is non-increasing in score from first to last.
C2_RankOrder ==
  rkPc = "returned" =>
    \A i \in 1..Len(rkResult) : \A j \in 1..Len(rkResult) :
      i < j => rkResult[i].score >= rkResult[j].score

\* an input in strictly increasing score order comes out reordered
C2_Witness ==
  /\ rkPc = "returned"
  /\ Len(rkScored) >= 2
  /\ rkScored[1].score < rkScored[2].score
  /\ rkScored[1].id # rkScored[2].id
  /\ Len(rkResult) >= 2
  /\ rkResult[1].score > rkResult[2].score

\* C3: the ranker truncates to cap entries: empty for every cap <= 0, exactly
\* cap entries for 0 < cap < number of distinct ids, and all deduplicated
\* entries for cap >= number of distinct ids.
C3_CapTruncation ==
  rkPc = "returned" =>
    LET n == Cardinality(IdsOf(rkScored))
    IN  /\ rkMaxChunks <= 0 => rkResult = <<>>
        /\ (0 < rkMaxChunks /\ rkMaxChunks < n) => Len(rkResult) = rkMaxChunks
        /\ rkMaxChunks >= n =>
             /\ Len(rkResult) = n
             /\ IdsOf(rkResult) = IdsOf(rkScored)

----------------------------------------------------------------------------
(* Context optimizer: ContextSelector.applyContextLengthLimit               *)

MAX_CONTEXT_LENGTH == 10000
MAX_CHUNK_LENGTH == 3000
EllipsisLength == 3     \* '...'.length

MaxInput == 5           \* longest chunks array explored

\* content lengths of the stored chunks explored: short ones, one exactly at
\* the per-chunk limit, one just above it and one well above it
ContentLengths == {900, 1000, 3000, 3001, 4000}

\* A content string is represented by how it was built: the first `kept`
\* characters of the stored text followed by `suffix` appended characters.
StoredContent(n) == [kept |-> n, suffix |-> 0]
ContentLength(content) == content.kept + content.suffix

\* content.substring(0, n) + '...'
SubstringWithEllipsis(content, n) ==
  [kept |-> Min(n, content.kept), suffix |-> EllipsisLength]

\* the chunk stored at position i of the input; ids are the positions
StoredChunk(i, n) == [id |-> i, content |-> StoredContent(n)]
StoredChunks(lengths) == [i \in 1..Len(lengths) |-> StoredChunk(i, lengths[i])]

\* step 1: { ...chunk, content: length > max ? substring(0, max) + '...' : content }
TrimChunk(chunk, maxChunkLength) ==
  [chunk EXCEPT !.content =
     IF ContentLength(chunk.content) > maxChunkLength
     THEN SubstringWithEllipsis(chunk.content, maxChunkLength)
     ELSE chunk.content]

TrimChunks(chunks, maxChunkLength) ==
  [i \in 1..Len(chunks) |-> TrimChunk(chunks[i], maxChunkLength)]

\* loop state: limitedChunks, totalLength and whether the loop has left (break)
LimitStart == [limited |-> <<>>, total |-> 0, done |-> FALSE]

\* faulty variant: a chunk over the budget is skipped and the loop goes on
LimitStepSkip(st, chunk, maxChunks, maxContextLength) ==
  LET chunkLength == ContentLength(chunk.content)
  IN  IF st.done THEN st
      ELSE IF st.total + chunkLength > maxContextLength THEN st
      ELSE IF Len(st.limited) >= maxChunks THEN [st EXCEPT !.done = TRUE]
      ELSE [st EXCEPT !.limited = Append(st.limited, chunk),
                      !.total = st.total + chunkLength]

\* faulty variant: the budget is tested before the chunk's own length is added
LimitStepLateBudget(st, chunk, maxChunks, maxContextLength) ==
  LET chunkLength == ContentLength(chunk.content)
  IN  IF st.done THEN st
      ELSE IF st.total > maxContextLength THEN [st EXCEPT !.done = TRUE]
      ELSE IF Len(st.limited) >= maxChunks THEN [st EXCEPT !.done = TRUE]
      ELSE [st EXCEPT !.limited = Append(st.limited, chunk),
                      !.total = st.total + chunkLength]

\* faulty variant: the chunk count is tested with > instead of >=
LimitStepOffByOne(st, chunk, maxChunks, maxContextLength) ==
  LET chunkLength == ContentLength(chunk.content)
  IN  IF st.done THEN st
      ELSE IF st.total + chunkLength > maxContextLength
           THEN [st EXCEPT !.done = TRUE]
      ELSE IF Len(st.limited) > maxChunks THEN [st EXCEPT !.done = TRUE]
      ELSE [st EXCEPT !.limited = Append(st.limited, chunk),
                      !.total = st.total + chunkLength]

\* one iteration of `for (const chunk of trimmedChunks)`
LimitStep(st, chunk, maxChunks, maxContextLength) ==
  LET chunkLength == ContentLength(chunk.content)
  IN  IF st.done THEN st
      ELSE IF st.total + chunkLength > maxContextLength
           THEN [st EXCEPT !.done = TRUE]
      ELSE IF Len(st.limited) >= maxChunks THEN [st EXCEPT !.done = TRUE]
      ELSE [st EXCEPT !.limited = Append(st.limited, chunk),
                      !.total = st.total + chunkLength]

RECURSIVE LimitLoop(_, _, _, _, _)
LimitLoop(trimmedChunks, i, st, maxChunks, maxContextLength) ==
  IF i > Len(trimmedChunks) THEN st
  ELSE LimitLoop(trimmedChunks, i + 1,
                 LimitStep(st, trimmedChunks[i], maxChunks, maxContextLength),
                 maxChunks, maxContextLength)

\* applyContextLengthLimit with the two limits as parameters
LimitChunks(chunks, maxChunks, maxChunkLength, maxContextLength) ==
  IF Len(chunks) = 0 THEN chunks
  ELSE LimitLoop(TrimChunks(chunks, maxChunkLength), 1, LimitStart,
                 maxChunks, maxContextLength).limited

ApplyContextLengthLimit(chunks, maxChunks) ==
  LimitChunks(chunks, maxChunks, MAX_CHUNK_LENGTH, MAX_CONTEXT_LENGTH)

LimitIdle ==
  /\ clChunks = <<>>
  /\ clMaxChunks = 0
  /\ clResult = <<>>
  /\ clPc = "idle"

LimitInit ==
  /\ clChunks \in {StoredChunks(ls) : ls \in SeqsUpTo(ContentLengths, MaxInput)}
  /\ clMaxChunks \in (-1)..(MaxInput + 1)
  /\ clResult = <<>>
  /\ clPc = "called"

LimitCall ==
  /\ clPc = "called"
  /\ clResult' = ApplyContextLengthLimit(clChunks, clMaxChunks)
  /\ clPc' = "returned"
  /\ UNCHANGED <<clChunks, clMaxChunks>>

----------------------------------------------------------------------------
(* Claims about the context optimizer (checked under SpecLimit)             *)

RECURSIVE TotalLength(_)
TotalLength(chunks) ==
  IF chunks = <<>> THEN 0
  ELSE ContentLength(Head(chunks).content) + TotalLength(Tail(chunks))

Prefix(s, n) == SubSeq(s, 1, n)
IsPrefixOf(p, s) == Len(p) <= Len(s) /\ p = Prefix(s, Len(p))

\* the longest prefix of s that fits the budget and the chunk count
\* (the empty prefix when none fits)
IsLongestFittingPrefix(p, s, maxChunks, budget) ==
  /\ IsPrefixOf(p, s)
  /\ TotalLength(p) <= budget
  /\ p # <<>> => Len(p) <= maxChunks
  /\ Len(p) < Len(s) =>
       \/ TotalLength(Prefix(s, Len(p) + 1)) > budget
       \/ Len(p) + 1 > maxChunks

\* C4: applyContextLengthLimit returns exactly the longest prefix of its
\* per-chunk-truncated input, in input order, whose cumulative content length
\* does not exceed the total budget and whose size does not exceed maxChunks;
\* a chunk after the first over-budget chunk is never included even if it
\* would fit (three chunks of length 4000 under budget 9000 and per-chunk cap
\* 5000 yield exactly the first two).
C4_GreedyPrefix ==
  /\ clPc = "returned" =>
       IsLongestFittingPrefix(clResult,
                              TrimChunks(clChunks, MAX_CHUNK_LENGTH),
                              clMaxChunks, MAX_CONTEXT_LENGTH)
  /\ LET three == StoredChunks(<<4000, 4000, 4000>>)
     IN  LimitChunks(three, 3, 5000, 9000) = Prefix(three, 2)

\* the loop left at an over-budget chunk although a later chunk would have
\* fitted into the remaining budget
C4_Witness ==
  /\ clPc = "returned"
  /\ Len(clResult) + 2 <= Len(clChunks)
  /\ Len(clResult) < clMaxChunks
  /\ LET t == TrimChunks(clChunks, MAX_CHUNK_LENGTH)
     IN  /\ TotalLength(Prefix(t, Len(clResult) + 1)) > MAX_CONTEXT_LENGTH
         /\ \E k \in (Len(clResult) + 2)..Len(t) :
              TotalLength(clResult) + ContentLength(t[k].content)
                <= MAX_CONTEXT_LENGTH

\* C5: the sum of the (possibly truncated) content lengths of the returned
\* chunks is at most MAX_CONTEXT_LENGTH.
C5_BudgetRespected ==
  clPc = "returned" => TotalLength(clResult) <= MAX_CONTEXT_LENGTH

\* the input as a whole is over the budget and the output fills it exactly
C5_Witness ==
  /\ clPc = "returned"
  /\ TotalLength(clChunks) > MAX_CONTEXT_LENGTH
  /\ Len(clResult) < Len(clChunks)
  /\ Len(clResult) < clMaxChunks
  /\ TotalLength(clResult) = MAX_CONTEXT_LENGTH

\* C6: each returned chunk's content length is at most MAX_CHUNK_LENGTH, and
\* no returned content is longer than the chunk's original content.
C6_ChunkCapRespected ==
  clPc = "returned" =>
    \A i \in 1..Len(clResult) :
      /\ ContentLength(clResult[i].content) <= MAX_CHUNK_LENGTH
      /\ ContentLength(clResult[i].content)
           <= ContentLength(clChunks[clResult[i].id].content)

\* C7: maxChunks = 0 yields an empty output, and a maxChunks value >= the
\* input size returns all chunks that fit the budget (the longest prefix of
\* the truncated input whose total length is within MAX_CONTEXT_LENGTH).
C7_MaxChunksEnds ==
  clPc = "returned" =>
    LET t == TrimChunks(clChunks, MAX_CHUNK_LENGTH)
        fits == {n \in 0..Len(t) : TotalLength(Prefix(t, n)) <= MAX_CONTEXT_LENGTH}
    IN  /\ clMaxChunks = 0 => clResult = <<>>
        /\ clMaxChunks >= Len(clChunks) =>
             /\ Len(clResult) \in fits
             /\ \A n \in fits : n <= Len(clResult)
             /\ clResult = Prefix(t, Len(clResult))

\* maxChunks is no constraint and the budget alone cuts a non-empty input
C7_Witness ==
  /\ clPc = "returned"
  /\ clMaxChunks >= Len(clChunks)
  /\ clResult # <<>>
  /\ Len(clResult) < Len(clChunks)

----------------------------------------------------------------------------
(* Strings: sequences of characters over a small alphabet.  "." is the one  *)
(* character that is special in a regular expression.                       *)

ToLowerCaseChar(c) ==
  IF c = "A" THEN "a" ELSE IF c = "B" THEN "b" ELSE c

\* String.prototype.toLowerCase
ToLowerCase(s) == [i \in 1..Len(s) |-> ToLowerCaseChar(s[i])]

\* String.prototype.includes: t occurs in s as a substring
Includes(s, t) ==
  \E k \in 0..(Len(s) - Len(t)) : \A j \in 1..Len(t) : s[k + j] = t[j]

\* one pattern character against one text character: "." matches any
RegexCharMatches(p, c) == p = "." \/ p = c

RegexMatchesAt(s, pattern, k) ==
  /\ k + Len(pattern) <= Len(s)
  /\ \A j \in 1..Len(pattern) : RegexCharMatches(pattern[j], s[k + j])

\* (s.match(new RegExp(pattern, 'g')) || []).length: the matches are found
\* left to right and do not overlap; an empty match advances by one
RECURSIVE RegexMatchCountFrom(_, _, _)
RegexMatchCountFrom(s, pattern, k) ==
  IF k > Len(s) THEN 0
  ELSE IF RegexMatchesAt(s, pattern, k)
       THEN 1 + RegexMatchCountFrom(s, pattern, k + Max(Len(pattern), 1))
       ELSE RegexMatchCountFrom(s, pattern, k + 1)

RegexMatchCount(s, pattern) == RegexMatchCountFrom(s, pattern, 0)

----------------------------------------------------------------------------
(* Scorer: UnifiedSearchEngine.scoreChunksByMultipleStrategies              *)

\* Scores are fixed-point numbers: a signal x is held as floor(x * Scale);
\* a total, whose weights are tenths, is held in units of 1 / (10 * Scale).
Scale == 1000

BATCH_SIZE == 100
ExactMatchScore == 10   \* score += 10
ContentMatchUnit == 2   \* count * 2
KeywordCap == 10        \* Math.min(.., 10) and keywords.length * 10
SynonymCap == 5         \* Math.min(count, 5) and expandedKeywords.length * 5
KeywordWeight == 4      \* keywordScore * 0.4
SynonymWeight == 3      \* synonymScore * 0.3
SemanticWeight == 3     \* semanticScore * 0.3

\* floor(a / b * Scale) for a >= 0, b > 0
FixedDiv(a, b) == (a * Scale) \div b

RECURSIVE SqrtBetween(_, _, _)
SqrtBetween(n, lo, hi) ==
  IF lo >= hi THEN lo
  ELSE LET mid == (lo + hi + 1) \div 2
       IN  IF mid * mid <= n THEN SqrtBetween(n, mid, hi)
           ELSE SqrtBetween(n, lo, mid - 1)

\* floor(sqrt(n)) for 0 <= n < (Scale + 2)^2
FloorSqrt(n) == SqrtBetween(n, 0, Scale + 1)

Range(s) == {s[i] : i \in 1..Len(s)}

RECURSIVE SumOver(_, _, _)
\* sum of f[s[i]] ... written over an index range: Sum_{i = lo..hi} term[i]
SumOver(term, lo, hi) ==
  IF lo > hi THEN 0 ELSE term[lo] + SumOver(term, lo + 1, hi)

\* what one question keyword adds to score and to matches
KeywordContribution(keyword, chunk) ==
  LET keywordLower  == ToLowerCase(keyword)
      contentLower  == ToLowerCase(chunk.content)
      keywordsLower == {ToLowerCase(k) : k \in Range(chunk.keywords)}
  IN  IF keywordLower \in keywordsLower
      THEN [score |-> ExactMatchScore, matches |-> 1]
      ELSE IF Includes(contentLower, keywordLower)
      THEN [score |-> Min(RegexMatchCount(contentLower, keywordLower)
                            * ContentMatchUnit, KeywordCap),
            matches |-> 1]
      ELSE [score |-> 0, matches |-> 0]

CalculateKeywordScore(keywords, chunk) ==
  LET c == [i \in 1..Len(keywords) |-> KeywordContribution(keywords[i], chunk)]
      score   == SumOver([i \in 1..Len(keywords) |-> c[i].score], 1, Len(keywords))
      matches == SumOver([i \in 1..Len(keywords) |-> c[i].matches], 1, Len(keywords))
  IN  IF matches = 0 THEN 0
      ELSE Min(FixedDiv(score, Len(keywords) * KeywordCap), Scale)

SynonymContribution(synonym, contentLower) ==
  LET synonymLower == ToLowerCase(synonym)
  IN  IF Includes(contentLower, synonymLower)
      THEN Min(RegexMatchCount(contentLower, synonymLower), SynonymCap)
      ELSE 0

CalculateSynonymScore(expandedKeywords, chunk) ==
  IF Len(expandedKeywords) = 0 THEN 0
  ELSE LET contentLower == ToLowerCase(chunk.content)
           n == Len(expandedKeywords)
           score == SumOver([i \in 1..n |->
                       SynonymContribution(expandedKeywords[i], contentLower)],
                     1, n)
       IN  Min(FixedDiv(score, n * SynonymCap), Scale)

PadVector(vector, targetLength) ==
  IF Len(vector) >= targetLength THEN SubSeq(vector, 1, targetLength)
  ELSE [i \in 1..targetLength |-> IF i <= Len(vector) THEN vector[i] ELSE 0]

\* dotProduct / (sqrt(magnitude1) * sqrt(magnitude2)), rounded towards zero
CalculateSemanticSimilarity(vector1, vector2) ==
  LET maxLength == Max(Len(vector1), Len(vector2))
      v1 == PadVector(vector1, maxLength)
      v2 == PadVector(vector2, maxLength)
      dotProduct == SumOver([i \in 1..maxLength |-> v1[i] * v2[i]], 1, maxLength)
      magnitude1 == SumOver([i \in 1..maxLength |-> v1[i] * v1[i]], 1, maxLength)
      magnitude2 == SumOver([i \in 1..maxLength |-> v2[i] * v2[i]], 1, maxLength)
      absCos == FloorSqrt((dotProduct * dotProduct * Scale * Scale)
                            \div (magnitude1 * magnitude2))
  IN  IF magnitude1 = 0 \/ magnitude2 = 0 THEN 0
      ELSE IF dotProduct < 0 THEN 0 - absCos ELSE absCos

\* faulty variant: the keyword and semantic weights are swapped with other values
TotalScoreOtherWeights(keywordScore, synonymScore, semanticScore) ==
  keywordScore * 5 + synonymScore * SynonymWeight + semanticScore * 2

\* keywordScore * 0.4 + synonymScore * 0.3 + semanticScore * 0.3
TotalScore(keywordScore, synonymScore, semanticScore) ==
  keywordScore * KeywordWeight + synonymScore * SynonymWeight
    + semanticScore * SemanticWeight

\* questionAnalysis.expandedKeywords || []
ExpandedOrEmpty(questionAnalysis) ==
  IF questionAnalysis.expandedKeywords = <<>> THEN <<>>
  ELSE questionAnalysis.expandedKeywords[1]

\* faulty variant: a missing embedding counts as a neutral similarity of 0.5
ScoreOneNeutralSemantic(chunk, originalChunk, questionAnalysis, questionEmbedding) ==
  LET keywordScore == CalculateKeywordScore(questionAnalysis.keywords, originalChunk)
      synonymScore == CalculateSynonymScore(ExpandedOrEmpty(questionAnalysis),
                                            originalChunk)
      semanticScore ==
        IF questionEmbedding # <<>> /\ originalChunk.embedding # <<>>
        THEN CalculateSemanticSimilarity(questionEmbedding[1],
                                         originalChunk.embedding[1])
        ELSE Scale \div 2
  IN  [chunk |-> chunk,
       score |-> TotalScore(keywordScore, synonymScore, semanticScore),
       breakdown |-> [keyword |-> keywordScore,
                      synonym |-> synonymScore,
                      semantic |-> semanticScore]]

\* body of the batch.map callback: chunk is the converted chunk that is
\* returned, originalChunk the stored chunk that is scored
ScoreOne(chunk, originalChunk, questionAnalysis, questionEmbedding) ==
  LET keywordScore == CalculateKeywordScore(questionAnalysis.keywords, originalChunk)
      synonymScore == CalculateSynonymScore(ExpandedOrEmpty(questionAnalysis),
                                            originalChunk)
      semanticScore ==
        IF questionEmbedding # <<>> /\ originalChunk.embedding # <<>>
        THEN CalculateSemanticSimilarity(questionEmbedding[1],
                                         originalChunk.embedding[1])
        ELSE 0
  IN  [chunk |-> chunk,
       score |-> TotalScore(keywordScore, synonymScore, semanticScore),
       breakdown |-> [keyword |-> keywordScore,
                      synonym |-> synonymScore,
                      semantic |-> semanticScore]]

\* the fields of a converted Chunk that the scorer and ranker read; the
\* converted chunk carries no embedding
ConvertPDFChunk(pdfChunk) ==
  [id |-> pdfChunk.id, content |-> pdfChunk.content, keywords |-> pdfChunk.keywords]

ConvertPDFChunksToChunks(pdfChunks) ==
  [i \in 1..Len(pdfChunks) |-> ConvertPDFChunk(pdfChunks[i])]

\* faulty variant: the batch offset i is left out of the index
OriginalChunkNoOffset(chunks, i, index) == chunks[index + 1]

\* const originalChunk = chunks[i + index]  (i and index count from 0)
OriginalChunk(chunks, i, index) == chunks[i + index + 1]

\* batch.map(...) of one loop iteration
BatchResults(chunks, convertedChunks, i, batchSize, questionAnalysis, questionEmbedding) ==
  LET batch == JsSlice(convertedChunks, i, i + batchSize)
  IN  [k \in 1..Len(batch) |->
         ScoreOne(batch[k], OriginalChunk(chunks, i, k - 1),
                  questionAnalysis, questionEmbedding)]

MaxKeywords == 2        \* longest questionAnalysis.keywords explored
MaxExpanded == 1        \* longest questionAnalysis.expandedKeywords explored
MaxChunkList == 3       \* longest chunks array explored with batches
MaxBatch == 2           \* batch sizes 1..MaxBatch are explored besides BATCH_SIZE

\* question keywords and synonyms: "ab", "A" and "a."
KeywordPool == {<<"a", "b">>, <<"A">>, <<"a", ".">>}

\* chunk contents: "", "abAB", "a.ab" and "aaaaaa"
Contents ==
  {<<>>, <<"a", "b", "A", "B">>, <<"a", ".", "a", "b">>,
   <<"a", "a", "a", "a", "a", "a">>}

\* chunk keywords: [], ["Ab"] and ["a.", "b"]
ChunkKeywordLists == {<<>>, << <<"A", "b">> >>, << <<"a", ".">>, <<"b">> >>}

\* chunk embeddings: none, [-1] and [1, 1]
ChunkEmbeddings == {<<>>, << <<-1>> >>, << <<1, 1>> >>}

\* embedText(question): throws, [1] or [0, 0]
EmbedReplies == {<<>>, << <<1>> >>, << <<0, 0>> >>}

ChunkBodies(contents, keywordLists, embeddings) ==
  [content : contents, keywords : keywordLists, embedding : embeddings]

ChunkPool == ChunkBodies(Contents, ChunkKeywordLists, ChunkEmbeddings)

\* the chunks scored in batches: one content, with and without a keyword
BatchPool ==
  ChunkBodies({<<"a", "b", "A", "B">>}, {<<>>, << <<"A", "b">> >>}, ChunkEmbeddings)

\* the stored chunks with these bodies; a chunk's id is its position
PDFChunks(bodies) ==
  [i \in 1..Len(bodies) |->
     [id |-> i, content |-> bodies[i].content, keywords |-> bodies[i].keywords,
      embedding |-> bodies[i].embedding]]

Analyses(maxKeywords, maxExpanded) ==
  [keywords : SeqsUpTo(KeywordPool, maxKeywords),
   expandedKeywords :
     {<<>>} \cup {<<e>> : e \in SeqsUpTo(KeywordPool, maxExpanded)}]

ScoreIdle ==
  /\ scChunks = <<>>
  /\ scAnalysis = [keywords |-> <<>>, expandedKeywords |-> <<>>]
  /\ scEmbedReply = <<>>
  /\ scBatchSize = BATCH_SIZE
  /\ scConverted = <<>>
  /\ scQuestionEmbedding = <<>>
  /\ scI = 0
  /\ scResults = <<>>
  /\ scPc = "idle"

\* entry up to the loop: convert the chunks, embed the question (a failure
\* of the embedding service leaves questionEmbedding null)
ScoreBegin ==
  /\ scPc = "called"
  /\ scConverted' = ConvertPDFChunksToChunks(scChunks)
  /\ scQuestionEmbedding' = scEmbedReply
  /\ scI' = 0
  /\ scResults' = <<>>
  /\ scPc' = "scoring"
  /\ UNCHANGED <<scChunks, scAnalysis, scEmbedReply, scBatchSize>>

\* one iteration of for (i = 0; i < convertedChunks.length; i += BATCH_SIZE)
ScoreBatch ==
  /\ scPc = "scoring"
  /\ scI < Len(scConverted)
  /\ scResults' = scResults \o BatchResults(scChunks, scConverted, scI, scBatchSize,
                                            scAnalysis, scQuestionEmbedding)
  /\ scI' = scI + scBatchSize
  /\ UNCHANGED <<scChunks, scAnalysis, scEmbedReply, scBatchSize, scConverted,
                 scQuestionEmbedding, scPc>>

\* return results
ScoreReturn ==
  /\ scPc = "scoring"
  /\ scI >= Len(scConverted)
  /\ scPc' = "returned"
  /\ UNCHANGED <<scChunks, scAnalysis, scEmbedReply, scBatchSize, scConverted,
                 scQuestionEmbedding, scI, scResults>>

\* one chunk at most, every question analysis, the code's batch size
SignalsInit ==
  /\ scChunks \in {PDFChunks(b) : b \in SeqsUpTo(ChunkPool, 1)}
  /\ scAnalysis \in Analyses(MaxKeywords, MaxExpanded)
  /\ scEmbedReply \in EmbedReplies
  /\ scBatchSize = BATCH_SIZE
  /\ scConverted = <<>>
  /\ scQuestionEmbedding = <<>>
  /\ scI = 0
  /\ scResults = <<>>
  /\ scPc = "called"

\* one chunk at most, one keyword and one expanded keyword at most
DegradeInit ==
  /\ scChunks \in {PDFChunks(b) : b \in SeqsUpTo(ChunkPool, 1)}
  /\ scAnalysis \in Analyses(1, 1)
  /\ scEmbedReply \in EmbedReplies
  /\ scBatchSize = BATCH_SIZE
  /\ scConverted = <<>>
  /\ scQuestionEmbedding = <<>>
  /\ scI = 0
  /\ scResults = <<>>
  /\ scPc = "called"

\* several chunks, short question analyses, every batch size
ScoreInit ==
  /\ scChunks \in {PDFChunks(b) : b \in SeqsUpTo(BatchPool, MaxChunkList)}
  /\ scAnalysis \in {a \in Analyses(1, 0) : a.keywords # <<>>}
  /\ scEmbedReply \in {<<>>, << <<1>> >>}
  /\ scBatchSize \in (1..MaxBatch) \cup {BATCH_SIZE}
  /\ scConverted = <<>>
  /\ scQuestionEmbedding = <<>>
  /\ scI = 0
  /\ scResults = <<>>
  /\ scPc = "called"

----------------------------------------------------------------------------
(* Claims about the scorer (C8, C9 under SpecSignals; C10 under SpecScore)  *)

\* scenario A: the single question keyword is (case-insensitively) one of
\* the chunk's keywords, no expanded keywords, no chunk embedding
IsExactMatchScenario(pdfChunk) ==
  /\ Len(scAnalysis.keywords) = 1
  /\ \E k \in Range(pdfChunk.keywords) :
       ToLowerCase(k) = ToLowerCase(scAnalysis.keywords[1])
  /\ ExpandedOrEmpty(scAnalysis) = <<>>
  /\ pdfChunk.embedding = <<>>

\* C8: each of the keyword, synonym and semantic signals lies in [0,1] and
\* the total score lies in [0,1]; the semantic signal is never negative.
C8_ScoreBounds ==
  \A i \in 1..Len(scResults) :
    LET r == scResults[i]
    IN  /\ 0 <= r.breakdown.keyword  /\ r.breakdown.keyword  <= Scale
        /\ 0 <= r.breakdown.synonym  /\ r.breakdown.synonym  <= Scale
        /\ 0 <= r.breakdown.semantic /\ r.breakdown.semantic <= Scale
        /\ 0 <= r.score /\ r.score <= 10 * Scale

\* C9: the total score of every scored chunk is 0.4*keyword + 0.3*synonym
\* + 0.3*semantic of its own breakdown; a chunk whose keywords contain the
\* single question keyword, with no expanded keywords and no embedding, has
\* keyword = 1.0, synonym = 0, semantic = 0 and total = 0.4.
C9_TotalIsWeightedSum ==
  \A i \in 1..Len(scResults) :
    LET r == scResults[i]
    IN  /\ r.score = 4 * r.breakdown.keyword + 3 * r.breakdown.synonym
                       + 3 * r.breakdown.semantic
        /\ IsExactMatchScenario(scChunks[i]) =>
             /\ r.breakdown = [keyword |-> Scale, synonym |-> 0, semantic |-> 0]
             /\ r.score = 4 * Scale

\* scenario A has been scored
C9_Witness ==
  /\ scPc = "returned"
  /\ Len(scResults) = 1
  /\ IsExactMatchScenario(scChunks[1])
  /\ scResults[1].score = 4 * Scale

\* C10: for every batch size the results are, in input order, each chunk
\* paired with the score and breakdown it gets when scored on its own.
C10_BatchIndependent ==
  scPc = "returned" =>
    /\ Len(scResults) = Len(scChunks)
    /\ \A i \in 1..Len(scChunks) :
         /\ scResults[i].chunk.id = scChunks[i].id
         /\ scResults[i] = ScoreOne(ConvertPDFChunk(scChunks[i]), scChunks[i],
                                    scAnalysis, scEmbedReply)

\* three chunks with three different totals went through batches of two
C10_Witness ==
  /\ scPc = "returned"
  /\ scBatchSize = 2
  /\ Len(scChunks) = 3
  /\ Len(scResults) = 3
  /\ Cardinality({scResults[i].score : i \in 1..3}) = 3

\* what C15 says of the scores computed so far
C15_SemanticZeroOthersSame ==
  \A i \in 1..Len(scResults) :
    LET r == scResults[i]
        c == scChunks[i]
    IN  (scEmbedReply = <<>> \/ c.embedding = <<>>) =>
          /\ r.breakdown.semantic = 0
          /\ \A ce \in ChunkEmbeddings :
               LET other == [c EXCEPT !.embedding = ce]
               IN  /\ r.breakdown.keyword =
                        CalculateKeywordScore(scAnalysis.keywords, other)
                   /\ r.breakdown.synonym =
                        CalculateSynonymScore(ExpandedOrEmpty(scAnalysis), other)

\* C15: when the embedding service fails on the question, or a chunk has no
\* embedding, the chunk's semantic score is 0, its keyword and synonym scores
\* are what the chunk gets with any embedding and any reply of the service, and
\* the scoring still runs to its return with one result per chunk.
C15_SoftSemanticDegradation ==
  /\ []C15_SemanticZeroOthersSame
  /\ <>(scPc = "returned" /\ Len(scResults) = Len(scChunks))

\* the embedding service failed, and a chunk that has an embedding and
\* matches a keyword was scored
C15_Witness ==
  /\ scPc = "returned"
  /\ scEmbedReply = <<>>
  /\ Len(scResults) = 1
  /\ scChunks[1].embedding # <<>>
  /\ scResults[1].breakdown.keyword > 0
  /\ scResults[1].breakdown.semantic = 0

\* the number of places where t occurs in s as a literal substring, counted
\* left to right without overlap (no character of t is special)
RECURSIVE OccurrencesFrom(_, _, _)
OccurrencesFrom(s, t, k) ==
  IF k + Len(t) > Len(s) THEN 0
  ELSE IF \A j \in 1..Len(t) : s[k + j] = t[j]
       THEN 1 + OccurrencesFrom(s, t, k + Max(Len(t), 1))
       ELSE OccurrencesFrom(s, t, k + 1)

\* the reference formula of the keyword signal for one question keyword
ReferenceContribution(keyword, chunk) ==
  IF \E k \in Range(chunk.keywords) : ToLowerCase(k) = ToLowerCase(keyword)
  THEN 10
  ELSE Min(2 * OccurrencesFrom(ToLowerCase(chunk.content), ToLowerCase(keyword), 0),
           10)

ReferenceKeywordScore(keywords, chunk) ==
  LET n == Len(keywords)
      sum == SumOver([i \in 1..n |-> ReferenceContribution(keywords[i], chunk)], 1, n)
  IN  IF sum = 0 THEN 0 ELSE Min((sum * Scale) \div (n * 10), Scale)

\* C21: the keyword signal of every scored chunk equals the reference
\* formula: 10 per question keyword that is a case-insensitive member of the
\* chunk's keywords, otherwise min(2 * occurrences in the content, 10),
\* summed, divided by (number of keywords * 10), clamped to 1; and 0 when no
\* keyword matches.
C21_KeywordReference ==
  \A i \in 1..Len(scResults) :
    scResults[i].breakdown.keyword
      = ReferenceKeywordScore(scAnalysis.keywords, scChunks[i])

----------------------------------------------------------------------------
(* Response parser: QuestionAnalyzer.parseAnalysisResponse                  *)

\* JSON values, tagged by their type; Absent is a missing property
Absent == [t |-> "absent"]
JNull == [t |-> "null"]
JStr(str) == [t |-> "str", v |-> str]
JArr(arr) == [t |-> "arr", v |-> arr]

\* JavaScript truthiness: undefined, null and '' are falsy, an array is
\* truthy also when it is empty
Truthy(value) ==
  /\ value.t # "absent"
  /\ value.t # "null"
  /\ value # JStr("")

\* faulty variant: only a missing property takes the default (?? for ||)
OrDefaultNullish(value, default) ==
  IF value.t = "absent" \/ value.t = "null" THEN default ELSE value

\* value || default
OrDefault(value, default) == IF Truthy(value) THEN value ELSE default

\* the literal at line 214 (Korean for "general inquiry")
DefaultIntent == JStr("GENERAL_INQUIRY")
DefaultKeywords == JArr(<<>>)
DefaultCategory == JStr("general")
DefaultComplexity == JStr("simple")
DefaultEntities == JArr(<<>>)
DefaultContext == JStr("")

Categories ==
  {"definition", "procedure", "regulation", "comparison", "analysis", "general"}
Complexities == {"simple", "medium", "complex"}

AnalysisFields ==
  {"intent", "keywords", "category", "complexity", "entities", "context"}

\* the JSON objects the completion service may send
ResponseObjects ==
  [intent     : {Absent, JStr(""), JStr("ask")},
   keywords   : {Absent, JNull, JArr(<<>>), JArr(<<"k">>)},
   category   : {Absent, JStr(""), JStr("regulation"), JStr("policy")},
   complexity : {Absent, JStr("medium"), JStr("extreme")},
   entities   : {Absent, JArr(<<"e">>)},
   context    : {Absent, JStr(""), JStr("ctx")}]

NoProperties == [f \in AnalysisFields |-> Absent]

\* what stands between the fences: nothing, text that is no JSON, the JSON
\* values null and 42, or a JSON object
ResponseBodies ==
  {[k |-> "empty"], [k |-> "malformed"], [k |-> "null"], [k |-> "number"]}
    \cup {[k |-> "object", f |-> o] : o \in ResponseObjects}

\* a response text: an opening fence ("json" for ```json, "plain" for ```,
\* "none"), the body, and possibly a closing ``` at the end
ResponseTexts == [open : {"none", "json", "plain"}, body : ResponseBodies,
                  close : BOOLEAN]

\* .replace(/```json\s*/g, '').replace(/```\s*$/g, '').trim(): the ```json
\* and the closing ``` go, an opening ``` without "json" stays
CleanedText(responseText) ==
  [leadingFence |-> responseText.open = "plain", body |-> responseText.body]

\* JSON.parse throws a SyntaxError
JsonParseThrows(cleanedText) ==
  cleanedText.leadingFence \/ cleanedText.body.k \in {"empty", "malformed"}

\* analysis.<field> of the parsed value: undefined for every property of a
\* number; reading a property of null throws a TypeError
PropertiesOf(body) == IF body.k = "object" THEN body.f ELSE NoProperties

ParseThrows(responseText) ==
  \/ JsonParseThrows(CleanedText(responseText))
  \/ responseText.body.k = "null"

\* the object literal returned at lines 213-220
BuildAnalysis(analysis) ==
  [intent     |-> OrDefault(analysis.intent, DefaultIntent),
   keywords   |-> OrDefault(analysis.keywords, DefaultKeywords),
   category   |-> OrDefault(analysis.category, DefaultCategory),
   complexity |-> OrDefault(analysis.complexity, DefaultComplexity),
   entities   |-> OrDefault(analysis.entities, DefaultEntities),
   context    |-> OrDefault(analysis.context, DefaultContext)]

ParseAnalysisResponse(responseText) ==
  BuildAnalysis(PropertiesOf(CleanedText(responseText).body))

ParseIdle ==
  /\ paText = <<>>
  /\ paResult = <<>>
  /\ paPc = "idle"

ParseInit ==
  /\ paText \in ResponseTexts
  /\ paResult = <<>>
  /\ paPc = "called"

\* the try block runs to its return
ParseReturn ==
  /\ paPc = "called"
  /\ ~ParseThrows(paText)
  /\ paResult' = ParseAnalysisResponse(paText)
  /\ paPc' = "returned"
  /\ UNCHANGED paText

\* the catch block rethrows
ParseThrow ==
  /\ paPc = "called"
  /\ ParseThrows(paText)
  /\ paPc' = "threw"
  /\ UNCHANGED <<paText, paResult>>

----------------------------------------------------------------------------
(* Claims about the response parser (checked under SpecParse)               *)

ParsedObject == paPc = "returned" /\ paText.body.k = "object"

\* the defaults as the specification states them
StatedDefaults ==
  [intent |-> JStr(""), keywords |-> JArr(<<>>), category |-> JStr("general"),
   complexity |-> JStr("simple"), entities |-> JArr(<<>>), context |-> JStr("")]

\* C17 as stated: every field absent from the parsed object takes its stated
\* default (intent and context '', category 'general', complexity 'simple',
\* keywords and entities []), and every field that is present is passed
\* through unchanged.
C17_DefaultsAsStated ==
  ParsedObject =>
    \A f \in AnalysisFields :
      paResult[f] = IF paText.body.f[f] = Absent THEN StatedDefaults[f]
                    ELSE paText.body.f[f]

\* the defaults of the code: as stated, but intent -> "general inquiry"
CodeDefaults == [StatedDefaults EXCEPT !.intent = JStr("GENERAL_INQUIRY")]

IsFalsy(value) == value \in {Absent, JNull, JStr("")}

\* C17 (amended): every field that is absent from the parsed object, or
\* present with a falsy value (null, ''), takes its default, the default of
\* intent being the "general inquiry" literal; every field present with a
\* truthy value is passed through unchanged.
C17_DefaultsOfCode ==
  ParsedObject =>
    \A f \in AnalysisFields :
      paResult[f] = IF IsFalsy(paText.body.f[f]) THEN CodeDefaults[f]
                    ELSE paText.body.f[f]

\* an object with an absent, a falsy and a truthy field has been parsed
C17_Witness ==
  /\ ParsedObject
  /\ paText.body.f.intent = Absent
  /\ paText.body.f.category = JStr("")
  /\ paText.body.f.context = JStr("ctx")
  /\ paResult.intent = JStr("GENERAL_INQUIRY")
  /\ paResult.category = JStr("general")
  /\ paResult.context = JStr("ctx")

\* C18: every QuestionAnalysis that is returned has a category among the six
\* categories and a complexity among the three complexities.
C18_EnumsValid ==
  paPc = "returned" =>
    /\ paResult.category \in {JStr(c) : c \in Categories}
    /\ paResult.complexity \in {JStr(c) : c \in Complexities}

----------------------------------------------------------------------------
(* Analyzer: QuestionAnalyzer.analyzeQuestion / analyzeWithRetry, and the   *)
(* request that uses it: GeminiService.generateResponseWithSources          *)

\* VITE_GEMINI_API_KEY and VITE_GEMINI_API_KEY_2 .. _5
KeySlots == 5

Environments == [1..KeySlots -> BOOLEAN]

\* the slots of env from slot `from` on that hold a key, in slot order
RECURSIVE SetSlotsFrom(_, _)
SetSlotsFrom(env, from) ==
  IF from > KeySlots THEN <<>>
  ELSE (IF env[from] THEN <<from>> ELSE <<>>) \o SetSlotsFrom(env, from + 1)

\* [primaryKey, ...backupKeys].filter(key => key && key.trim() !== '')
ApiKeys(env) == SetSlotsFrom(env, 1)

\* what one call of analyzeWithModel meets: generateContent rejects, or it
\* resolves with a text
AnalyzeReplies ==
  {[k |-> "network"]} \cup
  {[k |-> "text", text |-> t] : t \in
     {[open |-> "none", body |-> [k |-> "empty"], close |-> FALSE],
      [open |-> "none", body |-> [k |-> "malformed"], close |-> FALSE],
      [open |-> "none", body |-> [k |-> "object", f |-> NoProperties],
       close |-> FALSE],
      [open |-> "json",
       body |-> [k |-> "object",
                 f |-> [intent |-> JStr("ask"), keywords |-> JArr(<<"k">>),
                        category |-> JStr("regulation"),
                        complexity |-> JStr("medium"),
                        entities |-> JArr(<<"e">>), context |-> JStr("ctx")]],
       close |-> TRUE]}}

\* analyzeWithModel throws
AttemptFails(reply) ==
  IF reply.k = "network" THEN TRUE ELSE ParseThrows(reply.text)

\* faulty variant: the loop stays on the credential it just tried
NextCredentialRepeat(apiKeys, tried) ==
  apiKeys[Max(Len(tried), 1)]

\* for (const apiKey of apiKeys): the credential of the next iteration
NextCredential(apiKeys, tried) ==
  apiKeys[Len(tried) + 1]

\* faulty variant: a failed analysis is replaced by a fallback analysis
AfterAnalysisFailureFallback ==
  [pc |-> "analyzing", an |-> "returned", error |-> "none"]

\* the throw of line 141 passes the catch of analyzeQuestion (rethrown with a
\* prefix) and the catch of generateResponseWithSources (rethrown as is)
AfterAnalysisFailure ==
  [pc |-> "rejected", an |-> "failed", error |-> "analysis"]

\* the selections the request may see: [store |-> searches made,
\* score |-> scores computed]; no configured chunks means no search at all
SelectionRuns ==
  {[store |-> 0, score |-> 0], [store |-> 1, score |-> 1],
   [store |-> 2, score |-> 0], [store |-> 2, score |-> 2]}

AnalyzeIdle ==
  /\ anEnv = <<>>
  /\ anTried = <<>>
  /\ anReplies = <<>>
  /\ anResult = <<>>
  /\ anPc = "idle"

RequestIdle ==
  /\ rqHasKey = FALSE
  /\ rqCached = FALSE
  /\ rqSelectCalls = 0
  /\ rqStoreCalls = 0
  /\ rqScoreCalls = 0
  /\ rqError = "none"
  /\ rqPc = "idle"

RequestInit ==
  /\ anEnv \in Environments
  /\ anTried = <<>>
  /\ anReplies = <<>>
  /\ anResult = <<>>
  /\ anPc = "idle"
  /\ rqHasKey \in BOOLEAN
  /\ rqCached \in BOOLEAN
  /\ rqSelectCalls = 0
  /\ rqStoreCalls = 0
  /\ rqScoreCalls = 0
  /\ rqError = "none"
  /\ rqPc = "called"

\* lines 767-775: no key, no request
RequestKeyCheck ==
  /\ rqPc = "called"
  /\ IF rqHasKey
       THEN rqPc' = "keyed" /\ UNCHANGED rqError
       ELSE rqPc' = "rejected" /\ rqError' = "nokey"
  /\ UNCHANGED <<rqHasKey, rqCached, rqSelectCalls, rqStoreCalls, rqScoreCalls>>
  /\ UNCHANGED anVars

\* lines 778-780: the static source file is fetched unless it is cached
RequestLoad ==
  /\ rqPc = "keyed"
  /\ \E fetched \in BOOLEAN :
       IF rqCached \/ fetched
         THEN rqPc' = "loaded" /\ rqCached' = TRUE /\ UNCHANGED rqError
         ELSE rqPc' = "rejected" /\ rqError' = "load" /\ UNCHANGED rqCached
  /\ UNCHANGED <<rqHasKey, rqSelectCalls, rqStoreCalls, rqScoreCalls>>
  /\ UNCHANGED anVars

\* line 783: analyzeQuestion is called and enters the loop of analyzeWithRetry
RequestAnalyze ==
  /\ rqPc = "loaded"
  /\ rqPc' = "analyzing"
  /\ anPc' = "trying"
  /\ UNCHANGED <<anEnv, anTried, anReplies, anResult>>
  /\ UNCHANGED <<rqHasKey, rqCached, rqSelectCalls, rqStoreCalls, rqScoreCalls,
                 rqError>>

\* one iteration whose analyzeWithModel throws: catch, continue
AnalyzeAttemptFails ==
  /\ anPc = "trying"
  /\ Len(anTried) < Len(ApiKeys(anEnv))
  /\ \E reply \in AnalyzeReplies :
       /\ AttemptFails(reply)
       /\ anReplies' = Append(anReplies, reply)
  /\ anTried' = Append(anTried, NextCredential(ApiKeys(anEnv), anTried))
  /\ UNCHANGED <<anEnv, anResult, anPc>>
  /\ UNCHANGED rqVars

\* one iteration whose analyzeWithModel returns: the loop returns its result
AnalyzeAttemptSucceeds ==
  /\ anPc = "trying"
  /\ Len(anTried) < Len(ApiKeys(anEnv))
  /\ \E reply \in AnalyzeReplies :
       /\ ~AttemptFails(reply)
       /\ anReplies' = Append(anReplies, reply)
       /\ anResult' = <<ParseAnalysisResponse(reply.text)>>
  /\ anTried' = Append(anTried, NextCredential(ApiKeys(anEnv), anTried))
  /\ anPc' = "returned"
  /\ UNCHANGED anEnv
  /\ UNCHANGED rqVars

\* the loop is over: line 141 throws, and the request ends with that error
AnalyzeExhausted ==
  /\ anPc = "trying"
  /\ Len(anTried) = Len(ApiKeys(anEnv))
  /\ anPc' = AfterAnalysisFailure.an
  /\ rqPc' = AfterAnalysisFailure.pc
  /\ rqError' = AfterAnalysisFailure.error
  /\ anResult' = IF AfterAnalysisFailure.an = "returned"
                   THEN <<BuildAnalysis(NoProperties)>> ELSE anResult
  /\ UNCHANGED <<anEnv, anTried, anReplies>>
  /\ UNCHANGED <<rqHasKey, rqCached, rqSelectCalls, rqStoreCalls, rqScoreCalls>>

\* line 787: the context selection, with its store searches and scoring
RequestSelect ==
  /\ rqPc = "analyzing"
  /\ anPc = "returned"
  /\ \E run \in SelectionRuns :
       /\ rqStoreCalls' = rqStoreCalls + run.store
       /\ rqScoreCalls' = rqScoreCalls + run.score
  /\ rqSelectCalls' = rqSelectCalls + 1
  /\ rqPc' = "selected"
  /\ UNCHANGED <<rqHasKey, rqCached, rqError>>
  /\ UNCHANGED anVars

\* lines 821-829: the answer is generated, or generateContent rejects
RequestGenerate ==
  /\ rqPc = "selected"
  /\ \E generated \in BOOLEAN :
       IF generated
         THEN rqPc' = "done" /\ UNCHANGED rqError
         ELSE rqPc' = "rejected" /\ rqError' = "generate"
  /\ UNCHANGED <<rqHasKey, rqCached, rqSelectCalls, rqStoreCalls, rqScoreCalls>>
  /\ UNCHANGED anVars

----------------------------------------------------------------------------
(* Claims about the analyzer and the request (checked under SpecRequest)    *)

IsPrefixOfSeq(short, long) ==
  /\ Len(short) <= Len(long)
  /\ \A i \in 1..Len(short) : short[i] = long[i]

C11_Order ==
  /\ IsPrefixOfSeq(anTried, ApiKeys(anEnv))
  /\ \A i, j \in 1..Len(anTried) : anTried[i] = anTried[j] => i = j
  /\ Len(anReplies) = Len(anTried)
  /\ Len(anTried) <= Len(ApiKeys(anEnv))

C11_Outcome ==
  /\ anPc = "trying" => \A i \in 1..Len(anReplies) : AttemptFails(anReplies[i])
  /\ anPc = "returned" =>
       /\ anReplies # <<>>
       /\ \A i \in 1..(Len(anReplies) - 1) : AttemptFails(anReplies[i])
       /\ ~AttemptFails(anReplies[Len(anReplies)])
       /\ anResult = <<ParseAnalysisResponse(anReplies[Len(anReplies)].text)>>
  /\ anPc = "failed" =>
       /\ anTried = ApiKeys(anEnv)
       /\ \A i \in 1..Len(anReplies) : AttemptFails(anReplies[i])

\* C11: one analysis tries the credentials of the pool in pool order, each at
\* most once; a failed attempt (network error, malformed JSON, empty
\* response) is followed by the next credential, the first success is
\* returned without a later attempt, the analysis fails only when every
\* credential has failed, the attempts never exceed the pool size, and an
\* analysis that has started ends (returns or fails).
C11_RetryInPoolOrder ==
  /\ [](C11_Order /\ C11_Outcome)
  /\ (anPc = "trying") ~> (anPc \in {"returned", "failed"})

\* the third credential succeeded after a network error and a malformed reply
C11_Witness ==
  /\ anPc = "returned"
  /\ anTried = <<1, 3, 4>>
  /\ anReplies[1].k = "network"
  /\ anReplies[2].k = "text"
  /\ ~AttemptFails(anReplies[3])

\* C12: when the analysis fails after every credential, the request is
\* rejected with the analysis error and no context selection, chunk-store
\* search or scoring was attempted; a selection only ever follows an
\* analysis that returned.
C12_AnalysisIsPrerequisite ==
  /\ anPc = "failed" =>
       /\ rqPc = "rejected"
       /\ rqError = "analysis"
       /\ rqSelectCalls = 0
       /\ rqStoreCalls = 0
       /\ rqScoreCalls = 0
  /\ (rqSelectCalls > 0 \/ rqStoreCalls > 0 \/ rqScoreCalls > 0) =>
       /\ anPc = "returned"
       /\ anReplies # <<>>
       /\ ~AttemptFails(anReplies[Len(anReplies)])
  /\ rqError = "analysis" => anPc = "failed"

\* three credentials were exhausted and the request was rejected
C12_Witness ==
  /\ anPc = "failed"
  /\ Len(anTried) = 3
  /\ rqPc = "rejected"
  /\ rqError = "analysis"

----------------------------------------------------------------------------
(* Chunk store and store adapter: FirestoreService                          *)

\* A stored chunk. `content` holds the words of the content and `padding`
\* counts the further characters of the content, none of which occurs in a
\* query; searchableText and embedding are <<>> when the field is missing.
PDFChunkDoc(id, documentId, keywords, content, padding, searchableText, position) ==
  [id |-> id, documentId |-> documentId, keywords |-> keywords,
   content |-> content, padding |-> padding,
   searchableText |-> searchableText, position |-> position,
   embedding |-> <<>>]

\* c1: keywords ["Ab"], content "abAB", searchableText "abab"
\* c2: keywords ["a"], content "B" and 3999 more characters, searchableText "ab"
\* c3: no keywords, content "b.", no searchableText
StoredPool ==
  << PDFChunkDoc("c1", "d1", << <<"A", "b">> >>, <<"a", "b", "A", "B">>, 0,
                 << <<"a", "b", "a", "b">> >>, 2),
     PDFChunkDoc("c2", "d2", << <<"a">> >>, <<"B">>, 3999,
                 << <<"a", "b">> >>, 1),
     PDFChunkDoc("c3", "d1", <<>>, <<"b", ".">>, 0, <<>>, 1) >>

\* the elements of s whose positions are in keep, in the order of s
RECURSIVE SubsequenceFrom(_, _, _)
SubsequenceFrom(s, keep, i) ==
  IF i > Len(s) THEN <<>>
  ELSE (IF i \in keep THEN <<s[i]>> ELSE <<>>) \o SubsequenceFrom(s, keep, i + 1)

Subsequences(s) == {SubsequenceFrom(s, keep, 1) : keep \in SUBSET (1..Len(s))}

\* the ids of the documents that own the chunks, d1 before d2
OwnersOf(chunks) ==
  SubsequenceFrom(<<"d1", "d2">>,
                  {i \in 1..2 : \E k \in 1..Len(chunks) :
                     chunks[k].documentId = <<"d1", "d2">>[i]}, 1)

\* query(collection, limit(n)): the first n chunks of the collection
Snapshot(collection, n) == JsSlice(collection, 0, n)

\* faulty variant: the documentId argument is ignored
InScopeIgnored(chunk, documentId) == TRUE

\* if (documentId && data.documentId !== documentId) return;
InScope(chunk, documentId) ==
  \/ documentId = <<>>
  \/ documentId[1] = ""
  \/ chunk.documentId = documentId[1]

\* keywords.some(keyword => data.keywords && data.keywords.some(k => ...))
HasKeyword(chunk, keywords) ==
  \E n \in 1..Len(keywords), m \in 1..Len(chunk.keywords) :
    LET keyword == ToLowerCase(keywords[n])
        k       == ToLowerCase(chunk.keywords[m])
    IN  Includes(k, keyword) \/ Includes(keyword, k)

\* contentMatch || searchableTextMatch
HasText(chunk, searchText) ==
  LET lowerSearchText == ToLowerCase(searchText)
  IN  \/ Includes(ToLowerCase(chunk.content), lowerSearchText)
      \/ /\ chunk.searchableText # <<>>
         /\ chunk.searchableText[1] # <<>>
         /\ Includes(ToLowerCase(chunk.searchableText[1]), lowerSearchText)

SearchChunksByKeywords(collection, keywords, documentId, limitCount) ==
  LET Matches(chunk) == InScope(chunk, documentId) /\ HasKeyword(chunk, keywords)
  IN  JsSlice(SelectSeq(Snapshot(collection, limitCount * 2), Matches),
              0, limitCount)

SearchChunksByText(collection, searchText, documentId, limitCount) ==
  LET Matches(chunk) == InScope(chunk, documentId) /\ HasText(chunk, searchText)
  IN  JsSlice(SelectSeq(Snapshot(collection, limitCount * 2), Matches),
              0, limitCount)

\* faulty variant: the failure is ignored and the result is returned anyway
OrEmptyOnFailureIgnored(failed, result) == result

\* catch (error) { return []; }
OrEmptyOnFailure(failed, result) == IF failed THEN <<>> ELSE result

MaxLimit == 2         \* largest limitCount explored

\* keyword lists: [], ["ab"], ["b", "A"] and ["ab", "a."]
QueryKeywords ==
  {<<>>, << <<"a", "b">> >>, << <<"b">>, <<"A">> >>,
   << <<"a", "b">>, <<"a", ".">> >>}

\* search texts: "", "ab" and "B."
QueryTexts == {<<>>, <<"a", "b">>, <<"B", ".">>}

DocumentIdArguments == {<<>>, <<"">>, <<"d1">>}

StoreIdle ==
  /\ stDocuments = <<>>
  /\ stChunks = <<>>

StoreInit ==
  /\ stChunks \in Subsequences(StoredPool)
  /\ stDocuments = OwnersOf(stChunks)

AdapterIdle ==
  /\ adOp = "none"
  /\ adTerms = <<>>
  /\ adDocumentId = <<>>
  /\ adLimit = 0
  /\ adFailed = FALSE
  /\ adResult = <<>>
  /\ adPc = "idle"

AdapterInit ==
  /\ \/ adOp = "keywords" /\ adTerms \in QueryKeywords
     \/ adOp = "text" /\ adTerms \in {<<t>> : t \in QueryTexts}
  /\ adDocumentId \in DocumentIdArguments
  /\ adLimit \in 1..MaxLimit
  /\ adFailed = FALSE
  /\ adResult = <<>>
  /\ adPc = "called"

AdapterSearchByKeywords ==
  /\ adPc = "called"
  /\ adOp = "keywords"
  /\ \E failed \in BOOLEAN :
       /\ adFailed' = failed
       /\ adResult' = OrEmptyOnFailure(failed,
            SearchChunksByKeywords(stChunks, adTerms, adDocumentId, adLimit))
  /\ adPc' = "returned"
  /\ UNCHANGED <<adOp, adTerms, adDocumentId, adLimit>>
  /\ UNCHANGED stVars

AdapterSearchByText ==
  /\ adPc = "called"
  /\ adOp = "text"
  /\ \E failed \in BOOLEAN :
       /\ adFailed' = failed
       /\ adResult' = OrEmptyOnFailure(failed,
            SearchChunksByText(stChunks, adTerms[1], adDocumentId, adLimit))
  /\ adPc' = "returned"
  /\ UNCHANGED <<adOp, adTerms, adDocumentId, adLimit>>
  /\ UNCHANGED stVars

----------------------------------------------------------------------------
(* Claims about the store adapter (checked under SpecAdapter)               *)

ScopeGiven == adDocumentId # <<>> /\ adDocumentId[1] # ""

\* the chunk's keywords or content contain one of the terms, ignoring case
ContainsATerm(chunk, terms) ==
  \E n \in 1..Len(terms) :
    LET term == ToLowerCase(terms[n])
    IN  \/ \E m \in 1..Len(chunk.keywords) :
             Includes(ToLowerCase(chunk.keywords[m]), term)
        \/ Includes(ToLowerCase(chunk.content), term)

\* C16 as stated: every chunk returned by searchChunksByKeywords or
\* searchChunksByText has a keyword or a content that contains, ignoring
\* case, at least one query term, and belongs to the document of the scope
\* when one is given.
C16_ResultsContainATerm ==
  \A i \in 1..Len(adResult) :
    /\ ContainsATerm(adResult[i], adTerms)
    /\ ScopeGiven => adResult[i].documentId = adDocumentId[1]

\* C16 (amended): every chunk returned by searchChunksByKeywords has a
\* keyword that, ignoring case, contains a query keyword or is contained in
\* one; every chunk returned by searchChunksByText has a content or a
\* searchableText that contains the search text, ignoring case; with a
\* documentId scope, every returned chunk belongs to that document.
C16_ResultsMatchAsCoded ==
  \A i \in 1..Len(adResult) :
    /\ adOp = "keywords" => HasKeyword(adResult[i], adTerms)
    /\ adOp = "text" =>
         \/ Includes(ToLowerCase(adResult[i].content), ToLowerCase(adTerms[1]))
         \/ /\ adResult[i].searchableText # <<>>
            /\ Includes(ToLowerCase(adResult[i].searchableText[1]),
                        ToLowerCase(adTerms[1]))
    /\ ScopeGiven => adResult[i].documentId = adDocumentId[1]

\* a scoped keyword search returned a chunk of d1 while the snapshot also
\* held a matching chunk of d2
C16_Witness ==
  /\ adPc = "returned"
  /\ adOp = "keywords"
  /\ adDocumentId = <<"d1">>
  /\ Len(adResult) = 1
  /\ adResult[1].id = "c1"
  /\ \E k \in 1..Len(Snapshot(stChunks, adLimit * 2)) :
       /\ stChunks[k].id = "c2"
       /\ HasKeyword(stChunks[k], adTerms)

----------------------------------------------------------------------------
(* Context selection: ContextSelector.selectRelevantContexts                *)

DEFAULT_MAX_CHUNKS == 3

\* A Chunk of the selection. `content` is the content string as the length
\* limit sees it (how many characters), `words` the words in it that the
\* scoring looks for; `section` is metadata.section.
ContextChunk(id, words, length, keywords, section) ==
  [id |-> id, content |-> StoredContent(length), words |-> words,
   keywords |-> keywords, section |-> section]

\* the object literal of lines 322-341 (and 361-380); stored ids are not
\* empty, and a stored chunk has no metadata.section
ToContextChunk(pdfChunk) ==
  ContextChunk(pdfChunk.id, pdfChunk.content,
               Len(pdfChunk.content) + pdfChunk.padding, pdfChunk.keywords,
               "Unknown")

ToContextChunks(pdfChunks) ==
  [i \in 1..Len(pdfChunks) |-> ToContextChunk(pdfChunks[i])]

\* textResults.filter(chunk => !firestoreChunks.some(e => e.id === chunk.id))
NotYetFound(firestoreChunks, textResults) ==
  LET IsNew(chunk) ==
        \A i \in 1..Len(firestoreChunks) : firestoreChunks[i].id # chunk.id
  IN  SelectSeq(textResults, IsNew)

\* lines 457-472: question keywords matching a chunk keyword (either way
\* round), times 10, and question keywords occurring in the content, times 5
KeywordPoints(keywords, chunk) ==
  10 * Cardinality({n \in 1..Len(keywords) :
                      \E m \in 1..Len(chunk.keywords) :
                        LET keyword == ToLowerCase(keywords[n])
                            k       == ToLowerCase(chunk.keywords[m])
                        IN  Includes(k, keyword) \/ Includes(keyword, k)})
  + 5 * Cardinality({n \in 1..Len(keywords) :
                       Includes(ToLowerCase(chunk.words),
                                ToLowerCase(keywords[n]))})

\* lines 475-481: the section names the category ("definition", "procedure"
\* and "regulation" stand for the three Korean section words)
CategoryPoints(category, chunk) ==
  IF category \in {"definition", "procedure", "regulation"}
     /\ chunk.section = category
  THEN 15 ELSE 0

\* lines 484-488
ComplexityPoints(complexity, chunk) ==
  IF complexity = "complex" /\ ContentLength(chunk.content) > 500 THEN 10
  ELSE IF complexity = "simple" /\ ContentLength(chunk.content) < 200 THEN 5
  ELSE 0

SelectionScore(questionAnalysis, chunk) ==
  [chunk |-> chunk,
   score |-> KeywordPoints(questionAnalysis.keywords, chunk)
             + CategoryPoints(questionAnalysis.category, chunk)
             + ComplexityPoints(questionAnalysis.complexity, chunk)]

\* scoredChunks.sort(...).slice(0, maxChunks).map(item => item.chunk)
SelectTop(questionAnalysis, chunksToUse, maxChunks) ==
  LET scoredChunks == [i \in 1..Len(chunksToUse) |->
                         SelectionScore(questionAnalysis, chunksToUse[i])]
      top == JsSlice(SortByScore(scoredChunks), 0, maxChunks)
  IN  [i \in 1..Len(top) |-> top[i].chunk]

\* the placeholder of lines 412-446
ErrorChunks == << ContextChunk("error-1", <<>>, 200, <<>>, "error") >>

\* geminiService.allChunks after a forced parse: nothing (no service, a
\* failed or an empty parse), or the one or two chunks of the parsed PDF
RealtimeOutcomes ==
  {<<>>,
   << ContextChunk("rt-1", <<"a", "b">>, 100, <<>>, "Unknown") >>,
   << ContextChunk("rt-1", <<"a", "b">>, 100, <<>>, "Unknown"),
      ContextChunk("rt-2", <<"b">>, 100, <<>>, "Unknown") >>}

\* faulty variant: the contents are cut in the caller's array
InputAfterTrimInPlace(chunks, maxChunkLength) ==
  TrimChunks(chunks, maxChunkLength)

\* chunks.map(chunk => ({ ...chunk, content: ... })) builds new records in
\* a new array: the array it was given is as before
InputAfterTrim(chunks, maxChunkLength) == chunks

\* firestoreChunks.length > 0 ? firestoreChunks : allChunks
ChunksToUse(firestoreChunks, allChunks) ==
  IF Len(firestoreChunks) > 0 THEN firestoreChunks ELSE allChunks

StoreCall(op, failed, result) ==
  [op |-> op, failed |-> failed, returned |-> Len(result)]

\* the caller's local chunks: none, or a long and a short one
LocalChunkLists ==
  {<<>>,
   << ContextChunk("l1", <<"a", "b">>, 4000, << <<"a", "b">> >>, "definition"),
      ContextChunk("l2", <<"b">>, 100, <<>>, "other") >>}

SelectAnalyses ==
  [keywords : {<<>>, << <<"a", "b">> >>, << <<"b">>, <<"A">> >>},
   context : {<<>>, <<"a", "b">>, <<"B", ".">>},
   category : {"definition", "general"},
   complexity : {"simple", "complex"}]

SelectIdle ==
  /\ slAnalysis = <<>>
  /\ slAllChunks = <<>>
  /\ slMaxChunks = 0
  /\ slCalls = <<>>
  /\ slFirestoreChunks = <<>>
  /\ slResult = <<>>
  /\ slPc = "idle"

SelectInit ==
  /\ slAnalysis \in SelectAnalyses
  /\ slAllChunks \in LocalChunkLists
  /\ slMaxChunks \in {1, DEFAULT_MAX_CHUNKS}
  /\ slCalls = <<>>
  /\ slFirestoreChunks = <<>>
  /\ slResult = <<>>
  /\ slPc = "called"

\* the limit of lines 390-393 applied to what the searches left
LimitedChunksToUse ==
  ApplyContextLengthLimit(ChunksToUse(slFirestoreChunks, slAllChunks),
                          slMaxChunks)

\* where the selection stands: the guard of each of its steps
SelectKeywordSearchReady == slPc = "called"
SelectTextSearchReady ==
  slPc = "keyworded" /\ Len(slFirestoreChunks) < slMaxChunks
SelectSkipTextSearchReady ==
  slPc = "keyworded" /\ Len(slFirestoreChunks) >= slMaxChunks
SelectRankReady == slPc = "searched" /\ Len(LimitedChunksToUse) # 0
SelectRealtimeReady == slPc = "searched" /\ Len(LimitedChunksToUse) = 0

\* step 1, lines 313-347
SelectKeywordSearch ==
  /\ SelectKeywordSearchReady
  /\ \E failed \in BOOLEAN :
       LET firestoreResults == OrEmptyOnFailure(failed,
             SearchChunksByKeywords(stChunks, slAnalysis.keywords, <<>>,
                                    slMaxChunks))
       IN  /\ slFirestoreChunks' = ToContextChunks(firestoreResults)
           /\ slCalls' = Append(slCalls,
                StoreCall("searchChunksByKeywords", failed, firestoreResults))
  /\ slPc' = "keyworded"
  /\ UNCHANGED <<slAnalysis, slAllChunks, slMaxChunks, slResult>>
  /\ UNCHANGED stVars

\* step 2, lines 350-387: too few chunks so far
SelectTextSearch ==
  /\ SelectTextSearchReady
  /\ \E failed \in BOOLEAN :
       LET textResults == OrEmptyOnFailure(failed,
             SearchChunksByText(stChunks, slAnalysis.context, <<>>,
                                slMaxChunks - Len(slFirestoreChunks)))
       IN  /\ slFirestoreChunks' =
                slFirestoreChunks \o
                ToContextChunks(NotYetFound(slFirestoreChunks, textResults))
           /\ slCalls' = Append(slCalls,
                StoreCall("searchChunksByText", failed, textResults))
  /\ slPc' = "searched"
  /\ UNCHANGED <<slAnalysis, slAllChunks, slMaxChunks, slResult>>
  /\ UNCHANGED stVars

\* step 2 is skipped: the keyword search found maxChunks chunks
SelectSkipTextSearch ==
  /\ SelectSkipTextSearchReady
  /\ slPc' = "searched"
  /\ UNCHANGED <<slAnalysis, slAllChunks, slMaxChunks, slCalls,
                 slFirestoreChunks, slResult>>
  /\ UNCHANGED stVars

\* lines 390-393 and 455-505: chunks are left after the limit; they are
\* scored, sorted and cut to maxChunks
SelectRank ==
  /\ SelectRankReady
  /\ slResult' = <<SelectTop(slAnalysis, LimitedChunksToUse, slMaxChunks)>>
  /\ slAllChunks' =
       IF Len(slFirestoreChunks) > 0 THEN slAllChunks
       ELSE InputAfterTrim(slAllChunks, MAX_CHUNK_LENGTH)
  /\ slPc' = "returned"
  /\ UNCHANGED <<slAnalysis, slMaxChunks, slCalls, slFirestoreChunks>>
  /\ UNCHANGED stVars

\* lines 390-452: no chunk is left after the limit; the forced parse gives
\* the result, or the placeholder does
SelectRealtime ==
  /\ SelectRealtimeReady
  /\ slAllChunks' =
       IF Len(slFirestoreChunks) > 0 THEN slAllChunks
       ELSE InputAfterTrim(slAllChunks, MAX_CHUNK_LENGTH)
  /\ \E realtimeChunks \in RealtimeOutcomes :
       slResult' = <<IF Len(realtimeChunks) = 0 THEN ErrorChunks
                     ELSE realtimeChunks>>
  /\ slPc' = "returned"
  /\ UNCHANGED <<slAnalysis, slMaxChunks, slCalls, slFirestoreChunks>>
  /\ UNCHANGED stVars

----------------------------------------------------------------------------
(* Unified search: UnifiedSearchEngine.executeUnifiedSearch                 *)

\* u1: document d1, keywords ["Ab"], content "abAB", embedding [1, 1]
\* u2: document d1, no keywords, content "a(b", no embedding, sorts before u1
\* u3: document d2, keywords ["b"], content "aaaaaa", embedding [-1]
UnifiedPool ==
  << [PDFChunkDoc("c1", "d1", << <<"A", "b">> >>, <<"a", "b", "A", "B">>, 0,
                  <<>>, 2) EXCEPT !.embedding = << <<1, 1>> >>],
     PDFChunkDoc("c2", "d1", <<>>, <<"a", "(", "b">>, 0, <<>>, 1),
     [PDFChunkDoc("c3", "d2", << <<"b">> >>,
                  <<"a", "a", "a", "a", "a", "a">>, 0, <<>>, 1)
        EXCEPT !.embedding = << <<-1>> >>] >>

\* getAllDocuments: every document of the collection
GetAllDocuments(documents) == documents

\* stable insertion by (a, b) => posA - posB
InsertByPosition(sorted, chunk) ==
  LET before == {i \in 1..Len(sorted) : sorted[i].position <= chunk.position}
      n == Cardinality(before)
  IN  SubSeq(sorted, 1, n) \o <<chunk>> \o SubSeq(sorted, n + 1, Len(sorted))

RECURSIVE SortByPositionFrom(_, _, _)
SortByPositionFrom(chunks, i, sorted) ==
  IF i > Len(chunks) THEN sorted
  ELSE SortByPositionFrom(chunks, i + 1, InsertByPosition(sorted, chunks[i]))

\* getChunksByDocument: the document's chunks among the first 1000, by position
GetChunksByDocument(collection, documentId) ==
  LET Owned(chunk) == chunk.documentId = documentId
  IN  SortByPositionFrom(SelectSeq(Snapshot(collection, 1000), Owned), 1, <<>>)

\* getDocumentById: <<the document>>, or <<>> (null) when it is not stored or
\* the store is unavailable
GetDocumentById(documents, id, failed) ==
  IF ~failed /\ \E i \in 1..Len(documents) : documents[i] = id
  THEN <<id>> ELSE <<>>

\* [...new Set(pdfChunks.map(p => p.documentId))]
RECURSIVE DistinctFrom(_, _, _)
DistinctFrom(s, i, seen) ==
  IF i > Len(s) THEN seen
  ELSE DistinctFrom(s, i + 1,
                    IF \E k \in 1..Len(seen) : seen[k] = s[i] THEN seen
                    ELSE Append(seen, s[i]))

DocumentIdsOf(pdfChunks) ==
  DistinctFrom([i \in 1..Len(pdfChunks) |-> pdfChunks[i].documentId], 1, <<>>)

\* new RegExp(pattern, 'g') throws a SyntaxError: an unclosed group
RegexThrows(pattern) == \E i \in 1..Len(pattern) : pattern[i] = "("

\* calculateKeywordScore builds a RegExp of a keyword that is no keyword of
\* the chunk and occurs in its content
KeywordScoreThrows(keywords, chunk) ==
  \E n \in 1..Len(keywords) :
    LET keywordLower == ToLowerCase(keywords[n])
    IN  /\ \A m \in 1..Len(chunk.keywords) :
             ToLowerCase(chunk.keywords[m]) # keywordLower
        /\ Includes(ToLowerCase(chunk.content), keywordLower)
        /\ RegexThrows(keywordLower)

\* calculateSynonymScore builds a RegExp of a synonym that occurs in the content
SynonymScoreThrows(expandedKeywords, chunk) ==
  \E n \in 1..Len(expandedKeywords) :
    LET synonymLower == ToLowerCase(expandedKeywords[n])
    IN  /\ Includes(ToLowerCase(chunk.content), synonymLower)
        /\ RegexThrows(synonymLower)

ScoringThrows(chunks, questionAnalysis) ==
  \E i \in 1..Len(chunks) :
    \/ KeywordScoreThrows(questionAnalysis.keywords, chunks[i])
    \/ SynonymScoreThrows(ExpandedOrEmpty(questionAnalysis), chunks[i])

\* the ranker reads scored.chunk.id and scored.score
RankerEntry(scored) ==
  [id |-> scored.chunk.id, score |-> scored.score, chunk |-> scored.chunk]

RankerEntries(scoredChunks) ==
  [i \in 1..Len(scoredChunks) |-> RankerEntry(scoredChunks[i])]

\* { ...scored.chunk, relevanceScore: scored.score, qualityScore: scored.score }
EnhancedChunk(scored) ==
  [id |-> scored.chunk.id, content |-> scored.chunk.content,
   keywords |-> scored.chunk.keywords,
   relevanceScore |-> scored.score, qualityScore |-> scored.score]

EnhancedChunks(uniqueChunks) ==
  [i \in 1..Len(uniqueChunks) |-> EnhancedChunk(uniqueChunks[i])]

\* the optimizer's per-chunk cap: content over the cap is cut to the cap
CapContent(chunk, cap) ==
  [chunk EXCEPT !.content = JsSlice(chunk.content, 0, Max(cap, 0))]

\* the optimizer's loop in rank order: stop at the first chunk over the
\* budget, and stop when maxChunks chunks are accepted
RECURSIVE OptimizeFrom(_, _, _, _, _, _, _)
OptimizeFrom(chunks, i, accepted, total, maxChunks, cap, budget) ==
  IF i > Len(chunks) \/ Len(accepted) >= maxChunks THEN accepted
  ELSE LET capped == CapContent(chunks[i], cap)
       IN  IF total + Len(capped.content) > budget THEN accepted
           ELSE OptimizeFrom(chunks, i + 1, Append(accepted, capped),
                             total + Len(capped.content), maxChunks, cap, budget)

\* ContextQualityOptimizer.optimizeContextQuality(chunks, analysis, maxChunks)
OptimizeContextQuality(chunks, maxChunks, cap, budget) ==
  OptimizeFrom(chunks, 1, <<>>, 0, maxChunks, cap, budget)

\* faulty variant: a raise in the scoring ends the search with an empty result
AfterScoringRaiseEmptyResult ==
  [stage |-> "Done", error |-> "none",
   result |-> << [chunks |-> <<>>, totalProcessed |-> 0, uniqueResults |-> 0] >>]

\* the catch of lines 127-130 rethrows the error: nothing is returned
AfterScoringRaise ==
  [stage |-> "Aborted", error |-> "scoring", result |-> <<>>]

MaxResults == 2       \* largest maxChunks explored
OptimizerCaps == {3, 6}
OptimizerBudgets == {7}

\* keywords [], ["ab"], ["("] and ["ab", "b"]; expandedKeywords missing or ["a."]
UnifiedAnalyses ==
  [keywords : {<<>>, << <<"a", "b">> >>, << <<"(">> >>,
               << <<"a", "b">>, <<"b">> >>},
   expandedKeywords : {<<>>, << << <<"a", ".">> >> >>}]

UnifiedIdle ==
  /\ usAnalysis = <<>>
  /\ usMaxChunks = 0
  /\ usCap = 0
  /\ usBudget = 0
  /\ usCalls = <<>>
  /\ usDocuments = <<>>
  /\ usDocIndex = 0
  /\ usAllChunks = <<>>
  /\ usScored = <<>>
  /\ usUnique = <<>>
  /\ usResult = <<>>
  /\ usError = "none"
  /\ usStage = "Idle"

UnifiedInit ==
  /\ usAnalysis \in UnifiedAnalyses
  /\ usMaxChunks \in 0..MaxResults
  /\ usCap \in OptimizerCaps
  /\ usBudget \in OptimizerBudgets
  /\ usCalls = <<>>
  /\ usDocuments = <<>>
  /\ usDocIndex = 0
  /\ usAllChunks = <<>>
  /\ usScored = <<>>
  /\ usUnique = <<>>
  /\ usResult = <<>>
  /\ usError = "none"
  /\ usStage = "Fetching"

\* where the unified search stands: the guard of each of its steps
UnifiedFetchDocumentsReady == usStage = "Fetching" /\ usDocIndex = 0
UnifiedFetchChunksReady ==
  usStage = "Fetching" /\ usDocIndex >= 1 /\ usDocIndex <= Len(usDocuments)
UnifiedFetchReturnReady ==
  usStage = "Fetching" /\ usDocIndex > Len(usDocuments)
UnifiedScoreReady == usStage = "Scoring"
UnifiedRankReady == usStage = "Ranking"
UnifiedOptimizeReady == usStage = "Optimizing"

\* fetchChunksInBulk up to the loop: getAllDocuments
UnifiedFetchDocuments ==
  /\ UnifiedFetchDocumentsReady
  /\ \E failed \in BOOLEAN :
       LET allDocuments == OrEmptyOnFailure(failed, GetAllDocuments(stDocuments))
       IN  /\ usDocuments' = allDocuments
           /\ usCalls' = Append(usCalls,
                StoreCall("getAllDocuments", failed, allDocuments))
  /\ usDocIndex' = 1
  /\ UNCHANGED <<usAnalysis, usMaxChunks, usCap, usBudget, usAllChunks,
                 usScored, usUnique, usResult, usError, usStage>>
  /\ UNCHANGED stVars

\* one iteration of for (const doc of allDocuments): getChunksByDocument
UnifiedFetchChunks ==
  /\ UnifiedFetchChunksReady
  /\ \E failed \in BOOLEAN :
       LET chunks == OrEmptyOnFailure(failed,
             GetChunksByDocument(stChunks, usDocuments[usDocIndex]))
       IN  /\ usAllChunks' = usAllChunks \o chunks
           /\ usCalls' = Append(usCalls,
                StoreCall("getChunksByDocument", failed, chunks))
  /\ usDocIndex' = usDocIndex + 1
  /\ UNCHANGED <<usAnalysis, usMaxChunks, usCap, usBudget, usDocuments,
                 usScored, usUnique, usResult, usError, usStage>>
  /\ UNCHANGED stVars

\* the loop is over: fetchChunksInBulk returns allChunks
UnifiedFetchReturn ==
  /\ UnifiedFetchReturnReady
  /\ usStage' = "Scoring"
  /\ UNCHANGED <<usAnalysis, usMaxChunks, usCap, usBudget, usCalls,
                 usDocuments, usDocIndex, usAllChunks, usScored, usUnique,
                 usResult, usError>>
  /\ UNCHANGED stVars

\* scoreChunksByMultipleStrategies: the documents of the chunks are looked
\* up, the question is embedded, every chunk is scored; a RegExp that cannot
\* be built rejects the whole call
UnifiedScore ==
  /\ UnifiedScoreReady
  /\ \E failed \in BOOLEAN :
       usCalls' = usCalls \o
         [i \in 1..Len(DocumentIdsOf(usAllChunks)) |->
            StoreCall("getDocumentById", failed,
                      GetDocumentById(stDocuments,
                                      DocumentIdsOf(usAllChunks)[i], failed))]
  /\ \E questionEmbedding \in EmbedReplies :
       IF ScoringThrows(usAllChunks, usAnalysis)
       THEN /\ usStage' = AfterScoringRaise.stage
            /\ usError' = AfterScoringRaise.error
            /\ usResult' = AfterScoringRaise.result
            /\ UNCHANGED usScored
       ELSE /\ usScored' =
                 BatchResults(usAllChunks, ConvertPDFChunksToChunks(usAllChunks),
                              0, BATCH_SIZE, usAnalysis, questionEmbedding)
            /\ usStage' = "Ranking"
            /\ UNCHANGED <<usError, usResult>>
  /\ UNCHANGED <<usAnalysis, usMaxChunks, usCap, usBudget, usDocuments,
                 usDocIndex, usAllChunks, usUnique>>
  /\ UNCHANGED stVars

\* removeDuplicatesAndRank
UnifiedRank ==
  /\ UnifiedRankReady
  /\ usUnique' = RemoveDuplicatesAndRank(RankerEntries(usScored), usMaxChunks)
  /\ usStage' = "Optimizing"
  /\ UNCHANGED <<usAnalysis, usMaxChunks, usCap, usBudget, usCalls,
                 usDocuments, usDocIndex, usAllChunks, usScored, usResult,
                 usError>>
  /\ UNCHANGED stVars

\* lines 88-123: the copies with their scores are optimized and returned
\* with the counts of the metrics
UnifiedOptimize ==
  /\ UnifiedOptimizeReady
  /\ LET optimizedChunks ==
           OptimizeContextQuality(EnhancedChunks(usUnique), usMaxChunks,
                                  usCap, usBudget)
     IN  usResult' = << [chunks |-> optimizedChunks,
                         totalProcessed |-> Len(usAllChunks),
                         uniqueResults |-> Len(optimizedChunks)] >>
  /\ usStage' = "Done"
  /\ UNCHANGED <<usAnalysis, usMaxChunks, usCap, usBudget, usCalls,
                 usDocuments, usDocIndex, usAllChunks, usScored, usUnique,
                 usError>>
  /\ UNCHANGED stVars

----------------------------------------------------------------------------
(* Advanced search: AdvancedSearchQualityService.applyContextLengthLimit,   *)
(* the last step of executeAdvancedSearch                                   *)

\* private static readonly MAX_CONTEXT_LENGTH = 50000
ADVANCED_MAX_CONTEXT_LENGTH == 50000

MaxOptimized == 3       \* longest optimizer output explored

\* this.MAX_CONTEXT_LENGTH, read in an instance method: the member is
\* declared static, so it is a property of the class and not of the
\* instance, and the read gives undefined (<<>>); a number n is <<n>>
ThisMaxContextLength == <<>>

\* a > b for a number a: an undefined b converts to NaN, and every
\* comparison with NaN is false
JsGreaterThan(a, b) == IF b = <<>> THEN FALSE ELSE a > b[1]

\* chunk.content?.length || 0; a content is <<its length>>, or <<>> when
\* the chunk has none
ContentLengthOrZero(chunk) ==
  IF chunk.content = <<>> THEN 0 ELSE chunk.content[1]

\* what ContextQualityOptimizer.optimizeContextQuality hands over: chunks
\* without content, and with 20000, 30000 and 50001 characters
OptimizedContents == {<<>>, <<20000>>, <<30000>>, <<50001>>}

OptimizedResults ==
  {[i \in 1..Len(c) |-> [id |-> i, content |-> c[i]]] :
     c \in SeqsUpTo(OptimizedContents, MaxOptimized)}

AdvancedIdle ==
  /\ avChunks = <<>>
  /\ avI = 0
  /\ avTotalLength = 0
  /\ avLimited = <<>>
  /\ avPc = "idle"

\* let totalLength = 0; const limitedChunks = []
AdvancedInit ==
  /\ avChunks \in OptimizedResults
  /\ avI = 0
  /\ avTotalLength = 0
  /\ avLimited = <<>>
  /\ avPc = "limiting"

\* one iteration of for (const chunk of chunks): break, or push and add
AdvancedLimitStep ==
  /\ avPc = "limiting"
  /\ avI < Len(avChunks)
  /\ LET chunk == avChunks[avI + 1]
         chunkLength == ContentLengthOrZero(chunk)
     IN  IF JsGreaterThan(avTotalLength + chunkLength, ThisMaxContextLength)
         THEN /\ avPc' = "returned"
              /\ UNCHANGED <<avI, avTotalLength, avLimited>>
         ELSE /\ avLimited' = Append(avLimited, chunk)
              /\ avTotalLength' = avTotalLength + chunkLength
              /\ avI' = avI + 1
              /\ avPc' = avPc
  /\ UNCHANGED avChunks

\* the loop has taken every chunk: return limitedChunks
AdvancedLimitReturn ==
  /\ avPc = "limiting"
  /\ avI >= Len(avChunks)
  /\ avPc' = "returned"
  /\ UNCHANGED <<avChunks, avI, avTotalLength, avLimited>>

----------------------------------------------------------------------------
(* Key rotation: QuestionAnalyzer.getNextAvailableKey                       *)

MaxRotationCalls == 8   \* calls of getNextAvailableKey explored

\* faulty variant: the index is written back without the step
IndexAfterSelectionStuck(currentKeyIndex, length) ==
  currentKeyIndex % length

\* this.currentKeyIndex = (this.currentKeyIndex + 1) % availableKeys.length
IndexAfterSelection(currentKeyIndex, length) ==
  (currentKeyIndex + 1) % length

\* availableKeys[this.currentKeyIndex % availableKeys.length]
SelectedKey(availableKeys, currentKeyIndex) ==
  availableKeys[(currentKeyIndex % Len(availableKeys)) + 1]

RotationIdle ==
  /\ krEnv = <<>>
  /\ krIndex = 0
  /\ krSelected = <<>>

\* after the constructor: the keys are loaded, currentKeyIndex = 0
RotationInit ==
  /\ krEnv \in Environments
  /\ krIndex = 0
  /\ krSelected = <<>>

\* one call of getNextAvailableKey
GetNextAvailableKey ==
  /\ krEnv # <<>>
  /\ Len(krSelected) < MaxRotationCalls
  /\ LET availableKeys == ApiKeys(krEnv)
     IN  IF Len(availableKeys) = 0
         THEN /\ krSelected' = Append(krSelected, 0)
              /\ krIndex' = krIndex
         ELSE /\ krSelected' = Append(krSelected,
                                      SelectedKey(availableKeys, krIndex))
              /\ krIndex' = IndexAfterSelection(krIndex, Len(availableKeys))
  /\ UNCHANGED krEnv

----------------------------------------------------------------------------
(* Chunk splitter of the migration scripts: splitIntoChunks (chunkSize     *)
(* 1000, overlap 100) and the loop of processChunksStreaming (2000, 200).   *)
(* The two loops are the same code; the sizes are explored divided by 100,  *)
(* which keeps chunkSize * 0.5 a whole number.                              *)

MaxTextLength == 24     \* longest text explored
MaxSplitChunks == 6     \* loop iterations explored

\* chunkSize and overlap of splitIntoChunks and of processChunksStreaming
SplitSizes ==
  {[chunkSize |-> 10, overlap |-> 1], [chunkSize |-> 20, overlap |-> 2]}

\* positions (from 0) that may hold a '.' or a '\n'
SentenceEndPositions == {5, 7, 12, 17}

\* a text: how long it is and where its sentence ends are
Texts ==
  {[length |-> n, ends |-> e] :
     n \in 0..MaxTextLength, e \in SUBSET SentenceEndPositions}

\* String.prototype.slice(begin, end) on a text of this length: the
\* positions [from, to) it returns (a negative index counts from the end)
SliceBounds(length, begin, end) ==
  LET from == IF begin < 0 THEN Max(length + begin, 0) ELSE Min(begin, length)
      to   == IF end < 0 THEN Max(length + end, 0) ELSE Min(end, length)
  IN  [from |-> from, to |-> Max(to, from)]

\* Math.max(chunk.lastIndexOf('.'), chunk.lastIndexOf('\n')): the last
\* sentence end inside the chunk, as an index into the chunk, or -1
CutPoint(text, bounds) ==
  LET inside == {p \in text.ends : bounds.from <= p /\ p < bounds.to}
  IN  IF inside = {} THEN 0 - 1
      ELSE (CHOOSE p \in inside : \A q \in inside : q <= p) - bounds.from

\* chunk.length after the cut at a sentence boundary
ChunkLength(text, start, chunkSize) ==
  LET end == Min(start + chunkSize, text.length)
      bounds == SliceBounds(text.length, start, end)
      cutPoint == CutPoint(text, bounds)
  IN  IF end < text.length /\ 2 * cutPoint > 2 * start + chunkSize
      THEN Min(cutPoint + 1, bounds.to - bounds.from)
      ELSE bounds.to - bounds.from

\* faulty variant: the overlap is not taken off, the next chunk starts
\* where this one ended
StartAfterChunkNoOverlap(start, chunkLength, overlap) == start + chunkLength

\* start += chunk.length - overlap
StartAfterChunk(start, chunkLength, overlap) == start + chunkLength - overlap

SplitIdle ==
  /\ spText = [length |-> 0, ends |-> {}]
  /\ spChunkSize = 0
  /\ spOverlap = 0
  /\ spStart = 0
  /\ spChunks = <<>>
  /\ spPc = "idle"

\* const chunks = []; let start = 0
SplitInit ==
  /\ spText \in {t \in Texts : \A p \in t.ends : p < t.length}
  /\ \E sizes \in SplitSizes :
       spChunkSize = sizes.chunkSize /\ spOverlap = sizes.overlap
  /\ spStart = 0
  /\ spChunks = <<>>
  /\ spPc = "splitting"

\* one iteration of while (start < text.length)
SplitStep ==
  /\ spPc = "splitting"
  /\ spStart < spText.length
  /\ Len(spChunks) < MaxSplitChunks
  /\ LET chunkLength == ChunkLength(spText, spStart, spChunkSize)
     IN  /\ spChunks' = Append(spChunks, [startPos |-> spStart,
                                          endPos |-> spStart + chunkLength])
         /\ spStart' = StartAfterChunk(spStart, chunkLength, spOverlap)
  /\ UNCHANGED <<spText, spChunkSize, spOverlap, spPc>>

\* the loop condition is false: return chunks
SplitReturn ==
  /\ spPc = "splitting"
  /\ spStart >= spText.length
  /\ spPc' = "returned"
  /\ UNCHANGED <<spText, spChunkSize, spOverlap, spStart, spChunks>>

----------------------------------------------------------------------------
(* Chat window: ChatWindow.handleSendMessage and handleCancelResponse, in   *)
(* the file's first version and in its request-id version.  The component   *)
(* streams (onStreamingMessage is given).  Every handler runs to its next   *)
(* await in one step; the state updates of a handler are applied together. *)

MaxRequests == 2        \* handleSendMessage calls explored
MaxStreamChunks == 3    \* chunks the streams deliver at most, all together
ShortMessageLength == 10  \* lastMessage.content.length < 10

\* lengths of the chunks a stream delivers: one chunk is a short content,
\* two chunks are not
StreamChunkLengths == {6}

ChatVersions == {"first", "requestId"}

\* a displayed message; `request` is the handleSendMessage call that made it
\* (not a field of the code's MessageType); a content is the sequence of the
\* stream chunks it is made of
ChatMessage(id, role, content, request) ==
  [id |-> id, role |-> role, content |-> content, request |-> request]

\* id: Date.now().toString()            id: requestId
UserMessageId(version, now) == [n |-> now, suffix |-> ""]

\* id: (Date.now() + 1).toString()      id: `${requestId}-model`
ModelMessageId(version, now) ==
  IF version = "first" THEN [n |-> now + 1, suffix |-> ""]
  ELSE [n |-> now, suffix |-> "-model"]

\* id: (Date.now() + 1).toString()      id: `${requestId}-error`
ErrorMessageId(version, requestId, now) ==
  IF version = "first" THEN [n |-> now + 1, suffix |-> ""]
  ELSE [n |-> requestId, suffix |-> "-error"]

RECURSIVE ChunksDelivered(_)
\* how many chunks the streams of these requests have delivered
ChunksDelivered(requests) ==
  IF requests = <<>> THEN 0
  ELSE Len(requests[1].fullResponse) + ChunksDelivered(Tail(requests))

RECURSIVE ContentLengthOf(_)
\* content.length: the chunks' lengths added up
ContentLengthOf(content) ==
  IF content = <<>> THEN 0
  ELSE content[1].length + ContentLengthOf(Tail(content))

\* faulty variant: the request id of the last message is not compared
UpdatesLastMessageAnyModel(version, lastMessage, requestId) ==
  lastMessage.role = "model"

\* the test of the setMessages updater in the streaming loop:
\*   first version      lastMessage.role === Role.MODEL
\*   request-id version ... && lastMessage.id === `${requestId}-model`
UpdatesLastMessage(version, lastMessage, requestId) ==
  /\ lastMessage.role = "model"
  /\ version = "requestId" =>
       lastMessage.id = [n |-> requestId, suffix |-> "-model"]

\* the setMessages updater of the streaming loop
WithStreamedContent(version, messages, requestId, fullResponse) ==
  IF messages # <<>>
     /\ UpdatesLastMessage(version, messages[Len(messages)], requestId)
  THEN [messages EXCEPT ![Len(messages)].content = fullResponse]
  ELSE messages

\* the setMessages updater of handleCancelResponse: the first version has
\* none, the request-id version drops a trailing short model message
WithoutIncompleteMessage(version, messages) ==
  IF /\ version = "requestId"
     /\ messages # <<>>
     /\ messages[Len(messages)].role = "model"
     /\ ContentLengthOf(messages[Len(messages)].content) < ShortMessageLength
  THEN SubSeq(messages, 1, Len(messages) - 1)
  ELSE messages

ChatIdle ==
  /\ cwVersion = "none"
  /\ cwNow = 0
  /\ cwMessages = <<>>
  /\ cwIsProcessing = FALSE
  /\ cwIsCancelling = FALSE
  /\ cwRequests = <<>>

\* the component is mounted: useState([]), useState(false), useState(false)
ChatInit ==
  /\ cwVersion \in ChatVersions
  /\ cwNow = 0
  /\ cwMessages = <<>>
  /\ cwIsProcessing = FALSE
  /\ cwIsCancelling = FALSE
  /\ cwRequests = <<>>

\* Date.now() at a call of handleSendMessage: the clock of the call
\* before, or a later millisecond
ClockAtSend(now, requests) ==
  IF requests = <<>> THEN {now} ELSE {now, now + 1}

\* handleSendMessage up to `await onStreamingMessage(content)`: the user
\* message and the empty model message are appended; the call keeps the
\* isCancelling of the render it was made in
ChatSend ==
  /\ cwVersion # "none"
  /\ ~cwIsProcessing
  /\ Len(cwRequests) < MaxRequests
  /\ \E now \in ClockAtSend(cwNow, cwRequests) :
       LET request == Len(cwRequests) + 1
       IN  /\ cwNow' = now
           /\ cwMessages' = cwMessages \o
                << ChatMessage(UserMessageId(cwVersion, now), "user", <<>>,
                               request),
                   ChatMessage(ModelMessageId(cwVersion, now), "model", <<>>,
                               request) >>
           /\ cwRequests' = Append(cwRequests,
                [requestId |-> now, isCancelling |-> cwIsCancelling,
                 pc |-> "awaiting", fullResponse |-> <<>>,
                 cancelled |-> FALSE])
  /\ cwIsProcessing' = TRUE
  /\ UNCHANGED <<cwVersion, cwIsCancelling>>

\* onStreamingMessage resolves with the stream
ChatStreamOpens(r) ==
  /\ cwRequests[r].pc = "awaiting"
  /\ cwRequests' = [cwRequests EXCEPT ![r].pc = "streaming"]
  /\ UNCHANGED <<cwVersion, cwNow, cwMessages, cwIsProcessing, cwIsCancelling>>

\* one iteration of for await (const chunk of stream): a chunk arrives
ChatStreamChunk(r) ==
  /\ cwRequests[r].pc = "streaming"
  /\ ChunksDelivered(cwRequests) < MaxStreamChunks
  /\ IF cwRequests[r].isCancelling
     THEN \* break, then finally
          /\ cwRequests' = [cwRequests EXCEPT ![r].pc = "finished"]
          /\ cwIsProcessing' = FALSE
          /\ cwIsCancelling' = FALSE
          /\ UNCHANGED cwMessages
     ELSE \E length \in StreamChunkLengths :
            LET fullResponse ==
                  Append(cwRequests[r].fullResponse,
                         [request |-> r, length |-> length,
                          afterCancel |-> cwRequests[r].cancelled])
            IN  /\ cwRequests' =
                     [cwRequests EXCEPT ![r].fullResponse = fullResponse]
                /\ cwMessages' =
                     WithStreamedContent(cwVersion, cwMessages,
                                         cwRequests[r].requestId, fullResponse)
                /\ UNCHANGED <<cwIsProcessing, cwIsCancelling>>
  /\ UNCHANGED <<cwVersion, cwNow>>

\* the stream is exhausted: the loop ends, then finally
ChatStreamEnds(r) ==
  /\ cwRequests[r].pc = "streaming"
  /\ cwRequests' = [cwRequests EXCEPT ![r].pc = "finished"]
  /\ cwIsProcessing' = FALSE
  /\ cwIsCancelling' = FALSE
  /\ UNCHANGED <<cwVersion, cwNow, cwMessages>>

\* onStreamingMessage or the stream rejects: catch, then finally.  An
\* AbortError (which only a cancelled request meets) adds no message, any
\* other error adds the error message
ChatStreamFails(r) ==
  /\ cwRequests[r].pc \in {"awaiting", "streaming"}
  /\ \E abortError \in {FALSE, cwRequests[r].cancelled} :
       cwMessages' =
         IF abortError THEN cwMessages
         ELSE Append(cwMessages,
                ChatMessage(ErrorMessageId(cwVersion, cwRequests[r].requestId,
                                           cwNow),
                            "model", <<>>, r))
  /\ cwRequests' = [cwRequests EXCEPT ![r].pc = "finished"]
  /\ cwIsProcessing' = FALSE
  /\ cwIsCancelling' = FALSE
  /\ UNCHANGED <<cwVersion, cwNow>>

\* handleCancelResponse (stop button or ESC, offered while isProcessing):
\* setIsCancelling(true) and setIsCancelling(false) are applied together,
\* so the state ends false; geminiService.cancelCurrentRequest() reaches
\* the requests that are under way
ChatCancel ==
  /\ cwVersion # "none"
  /\ cwIsProcessing
  /\ cwRequests' =
       [r \in 1..Len(cwRequests) |->
          IF cwRequests[r].pc \in {"awaiting", "streaming"}
          THEN [cwRequests[r] EXCEPT !.cancelled = TRUE]
          ELSE cwRequests[r]]
  /\ cwMessages' = WithoutIncompleteMessage(cwVersion, cwMessages)
  /\ cwIsProcessing' = FALSE
  /\ cwIsCancelling' = FALSE
  /\ UNCHANGED <<cwVersion, cwNow>>

----------------------------------------------------------------------------
(* Cache: FirestoreCacheService (getCachedChunks, setCachedChunks,          *)
(* clearDocumentCache) over localStorage.  A key is the sequence of its     *)
(* parts, a document id a sequence of characters; time is counted in days.  *)

CACHE_EXPIRY == 30      \* 30 * 24 * 60 * 60 * 1000 ms
MaxCacheOps == 4        \* operations explored

\* CACHE_PREFIX and CACHE_VERSION
CachePrefix == "firestore_cache_"
CacheVersion == "v1.0"

\* the document ids '1' and '10'
DocumentIds == {<<"1">>, <<"1", "0">>}

\* `${this.CACHE_PREFIX}chunks_${documentId}`
ChunksKey(documentId) == <<CachePrefix, "chunks_">> \o documentId

\* a key of another part of the application: 'recent_search_terms'
ForeignKey == <<"recent_", "search_", "terms">>

StorageKeys == {ChunksKey(d) : d \in DocumentIds} \cup {ForeignKey}

\* what localStorage holds under a key: nothing (getItem gives null), the
\* empty string, a text that is not JSON, a text of another application, or
\* the JSON text of a cache entry
NoItem == [k |-> "absent"]
EmptyItem == [k |-> "empty"]
GarbageItem == [k |-> "garbage"]
ForeignItem == [k |-> "foreign"]
EntryItem(version, timestamp, content) ==
  [k |-> "entry", version |-> version, timestamp |-> timestamp,
   content |-> content]

\* the chunk lists that are cached; createdAt is a Firestore Timestamp in
\* the list that is given to setCachedChunks
CachedContents ==
  {[chunks |-> c, createdAt |-> "Timestamp"] : c \in {"x", "y"}}

\* JSON.parse(JSON.stringify(content)): the data survives, a Timestamp
\* comes back as a plain object
JsonRoundTrip(content) == [content EXCEPT !.createdAt = "object"]

\* JSON.stringify({ content, timestamp: Date.now(), version })
StringifiedEntry(content, now) ==
  EntryItem(CacheVersion, now, JsonRoundTrip(content))

\* JSON.parse(cached) throws
JsonParseFails(item) == item.k \in {"empty", "garbage", "foreign"}

\* faulty variant: an entry never expires
IsExpiredNever(now, timestamp) == FALSE

\* Date.now() - data.timestamp > this.CACHE_EXPIRY
IsExpired(now, timestamp) == now - timestamp > CACHE_EXPIRY

Removed(storage, key) == [storage EXCEPT ![key] = NoItem]

\* getCache(key): what it returns (<<>> for null, else <<content>>) and
\* what it leaves in localStorage
GetCache(storage, key, now) ==
  LET cached == storage[key]
  IN  IF cached.k \in {"absent", "empty"}            \* if (!cached)
      THEN [result |-> <<>>, storage |-> storage]
      ELSE IF JsonParseFails(cached)                  \* catch
      THEN [result |-> <<>>, storage |-> Removed(storage, key)]
      ELSE IF cached.version # CacheVersion
      THEN [result |-> <<>>, storage |-> Removed(storage, key)]
      ELSE IF IsExpired(now, cached.timestamp)
      THEN [result |-> <<>>, storage |-> Removed(storage, key)]
      ELSE [result |-> <<cached.content>>, storage |-> storage]

\* key.startsWith(this.CACHE_PREFIX)
IsCacheKey(key) == key[1] = CachePrefix

\* cleanupOldCache(): expired and unparsable entries of the cache go
CleanupOldCache(storage, now) ==
  [key \in DOMAIN storage |->
     LET item == storage[key]
     IN  IF ~IsCacheKey(key) \/ item.k \in {"absent", "empty"} THEN item
         ELSE IF JsonParseFails(item) THEN NoItem
         ELSE IF IsExpired(now, item.timestamp) THEN NoItem
         ELSE item]

\* setCache(key, content): setItem stores the entry, or it throws (the
\* quota is used up), the cache is cleaned and setItem is tried once more
SetCache(storage, key, content, now, firstThrows, retryThrows) ==
  IF ~firstThrows
  THEN [storage EXCEPT ![key] = StringifiedEntry(content, now)]
  ELSE LET cleaned == CleanupOldCache(storage, now)
       IN  IF retryThrows THEN cleaned
           ELSE [cleaned EXCEPT ![key] = StringifiedEntry(content, now)]

\* key.includes(`chunks_${documentId}`) || key.includes(`search_`)
\*   || key.includes(`text_search_`)
ClearMatches(key, documentId) ==
  \/ Includes(key, <<"chunks_">> \o documentId)
  \/ Includes(key, <<"search_">>)
  \/ Includes(key, <<"text_", "search_">>)

\* clearDocumentCache(documentId)
ClearDocumentCache(storage, documentId) ==
  [key \in DOMAIN storage |->
     IF ClearMatches(key, documentId) THEN NoItem ELSE storage[key]]

\* what an earlier session may have left under a chunks key
LeftoverItems ==
  {NoItem, EmptyItem, GarbageItem,
   EntryItem("v0.9", 0, JsonRoundTrip([chunks |-> "x", createdAt |-> "Timestamp"])),
   EntryItem(CacheVersion, 0,
             JsonRoundTrip([chunks |-> "x", createdAt |-> "Timestamp"]))}

CacheIdle ==
  /\ caStorage = <<>>
  /\ caNow = 0
  /\ caOps = 0
  /\ caBefore = <<>>
  /\ caLast = [op |-> "none"]

\* the page is loaded: localStorage holds what earlier sessions left
CacheInit ==
  /\ \E one \in LeftoverItems, other \in {NoItem, ForeignItem} :
       caStorage = [key \in StorageKeys |->
                      IF key = ChunksKey(<<"1">>) THEN one
                      ELSE IF key = ForeignKey THEN other
                      ELSE NoItem]
  /\ caNow = 0
  /\ caOps = 0
  /\ caBefore = <<>>
  /\ caLast = [op |-> "none"]

CacheCanStep == caStorage # <<>> /\ caOps < MaxCacheOps

\* time passes: a day, or 29 days
CacheClockAdvances ==
  /\ CacheCanStep
  /\ \E days \in {1, 29} : caNow' = caNow + days
  /\ caOps' = caOps + 1
  /\ caBefore' = caStorage
  /\ caLast' = [op |-> "clock"]
  /\ UNCHANGED caStorage

\* getCachedChunks(documentId)
GetCachedChunks ==
  /\ CacheCanStep
  /\ \E documentId \in DocumentIds :
       LET got == GetCache(caStorage, ChunksKey(documentId), caNow)
       IN  /\ caStorage' = got.storage
           /\ caLast' = [op |-> "get", documentId |-> documentId,
                         result |-> got.result]
  /\ caOps' = caOps + 1
  /\ caBefore' = caStorage
  /\ UNCHANGED caNow

\* setCachedChunks(documentId, chunks)
SetCachedChunks ==
  /\ CacheCanStep
  /\ \E documentId \in DocumentIds, content \in CachedContents,
        firstThrows \in BOOLEAN, retryThrows \in BOOLEAN :
       /\ caStorage' = SetCache(caStorage, ChunksKey(documentId), content,
                                caNow, firstThrows, retryThrows)
       /\ caLast' = [op |-> "set", documentId |-> documentId,
                     content |-> content,
                     stored |-> ~(firstThrows /\ retryThrows)]
  /\ caOps' = caOps + 1
  /\ caBefore' = caStorage
  /\ UNCHANGED caNow

\* clearDocumentCache(documentId)
ClearDocument ==
  /\ CacheCanStep
  /\ \E documentId \in DocumentIds :
       /\ caStorage' = ClearDocumentCache(caStorage, documentId)
       /\ caLast' = [op |-> "clear", documentId |-> documentId]
  /\ caOps' = caOps + 1
  /\ caBefore' = caStorage
  /\ UNCHANGED caNow

----------------------------------------------------------------------------
(* Specifications                                                           *)

CoreIdle ==
  /\ RankIdle /\ LimitIdle /\ ScoreIdle /\ ParseIdle /\ AnalyzeIdle
  /\ RequestIdle /\ StoreIdle /\ AdapterIdle /\ SelectIdle /\ UnifiedIdle
OuterIdle == AdvancedIdle /\ RotationIdle /\ SplitIdle /\ ChatIdle /\ CacheIdle

InitRank == RankInit /\ LimitIdle /\ ScoreIdle /\ ParseIdle /\ AnalyzeIdle /\ RequestIdle
  /\ StoreIdle /\ AdapterIdle /\ SelectIdle /\ UnifiedIdle /\ OuterIdle
NextRank == RankCall /\ UNCHANGED <<clVars, scVars, paVars, anVars, rqVars, stVars, adVars, slVars, usVars, outerVars>>
SpecRank == InitRank /\ [][NextRank]_vars

InitLimit == LimitInit /\ RankIdle /\ ScoreIdle /\ ParseIdle /\ AnalyzeIdle /\ RequestIdle
  /\ StoreIdle /\ AdapterIdle /\ SelectIdle /\ UnifiedIdle /\ OuterIdle
NextLimit == LimitCall /\ UNCHANGED <<rkVars, scVars, paVars, anVars, rqVars, stVars, adVars, slVars, usVars, outerVars>>
SpecLimit == InitLimit /\ [][NextLimit]_vars

\* the scorer's steps; both scorer specifications take them
NextScore ==
  \/ ScoreBegin /\ UNCHANGED <<rkVars, clVars, paVars, anVars, rqVars, stVars, adVars, slVars, usVars, outerVars>>
  \/ ScoreBatch /\ UNCHANGED <<rkVars, clVars, paVars, anVars, rqVars, stVars, adVars, slVars, usVars, outerVars>>
  \/ ScoreReturn /\ UNCHANGED <<rkVars, clVars, paVars, anVars, rqVars, stVars, adVars, slVars, usVars, outerVars>>

InitSignals == SignalsInit /\ RankIdle /\ LimitIdle /\ ParseIdle /\ AnalyzeIdle /\ RequestIdle
  /\ StoreIdle /\ AdapterIdle /\ SelectIdle /\ UnifiedIdle /\ OuterIdle
SpecSignals == InitSignals /\ [][NextScore]_vars

InitDegrade == DegradeInit /\ RankIdle /\ LimitIdle /\ ParseIdle /\ AnalyzeIdle /\ RequestIdle
  /\ StoreIdle /\ AdapterIdle /\ SelectIdle /\ UnifiedIdle /\ OuterIdle
\* the embedding call and the batches settle, so the scoring keeps stepping
SpecDegrade == InitDegrade /\ [][NextScore]_vars /\ WF_vars(NextScore)

InitScore == ScoreInit /\ RankIdle /\ LimitIdle /\ ParseIdle /\ AnalyzeIdle /\ RequestIdle
  /\ StoreIdle /\ AdapterIdle /\ SelectIdle /\ UnifiedIdle /\ OuterIdle
SpecScore == InitScore /\ [][NextScore]_vars

InitParse == ParseInit /\ RankIdle /\ LimitIdle /\ ScoreIdle /\ AnalyzeIdle /\ RequestIdle
  /\ StoreIdle /\ AdapterIdle /\ SelectIdle /\ UnifiedIdle /\ OuterIdle
NextParse ==
  \/ ParseReturn /\ UNCHANGED <<rkVars, clVars, scVars, anVars, rqVars, stVars, adVars, slVars, usVars, outerVars>>
  \/ ParseThrow /\ UNCHANGED <<rkVars, clVars, scVars, anVars, rqVars, stVars, adVars, slVars, usVars, outerVars>>
SpecParse == InitParse /\ [][NextParse]_vars

InitRequest == RequestInit /\ RankIdle /\ LimitIdle /\ ScoreIdle /\ ParseIdle
  /\ StoreIdle /\ AdapterIdle /\ SelectIdle /\ UnifiedIdle /\ OuterIdle
NextRequest ==
  \/ RequestKeyCheck /\ UNCHANGED <<rkVars, clVars, scVars, paVars, stVars, adVars, slVars, usVars, outerVars>>
  \/ RequestLoad /\ UNCHANGED <<rkVars, clVars, scVars, paVars, stVars, adVars, slVars, usVars, outerVars>>
  \/ RequestAnalyze /\ UNCHANGED <<rkVars, clVars, scVars, paVars, stVars, adVars, slVars, usVars, outerVars>>
  \/ AnalyzeAttemptFails /\ UNCHANGED <<rkVars, clVars, scVars, paVars, stVars, adVars, slVars, usVars, outerVars>>
  \/ AnalyzeAttemptSucceeds /\ UNCHANGED <<rkVars, clVars, scVars, paVars, stVars, adVars, slVars, usVars, outerVars>>
  \/ AnalyzeExhausted /\ UNCHANGED <<rkVars, clVars, scVars, paVars, stVars, adVars, slVars, usVars, outerVars>>
  \/ RequestSelect /\ UNCHANGED <<rkVars, clVars, scVars, paVars, stVars, adVars, slVars, usVars, outerVars>>
  \/ RequestGenerate /\ UNCHANGED <<rkVars, clVars, scVars, paVars, stVars, adVars, slVars, usVars, outerVars>>
\* every awaited service call settles, so a request that can step does step
SpecRequest == InitRequest /\ [][NextRequest]_vars /\ WF_vars(NextRequest)

OtherThanAdapter ==
  <<rkVars, clVars, scVars, paVars, anVars, rqVars, slVars, usVars, outerVars>>
InitAdapter == StoreInit /\ AdapterInit /\ RankIdle /\ LimitIdle /\ ScoreIdle
  /\ ParseIdle /\ AnalyzeIdle /\ RequestIdle /\ SelectIdle /\ UnifiedIdle
  /\ OuterIdle
NextAdapter ==
  \/ AdapterSearchByKeywords /\ UNCHANGED OtherThanAdapter
  \/ AdapterSearchByText /\ UNCHANGED OtherThanAdapter
SpecAdapter == InitAdapter /\ [][NextAdapter]_vars

OtherThanSelect ==
  <<rkVars, clVars, scVars, paVars, anVars, rqVars, adVars, usVars, outerVars>>
OtherThanUnified ==
  <<rkVars, clVars, scVars, paVars, anVars, rqVars, adVars, slVars, outerVars>>
\* one search per behaviour: a context selection or a unified search
InitSearch ==
  /\ \/ /\ stChunks \in Subsequences(StoredPool)
        /\ SelectInit /\ UnifiedIdle
     \/ /\ stChunks \in Subsequences(UnifiedPool)
        /\ UnifiedInit /\ SelectIdle
  /\ stDocuments = OwnersOf(stChunks)
  /\ RankIdle /\ LimitIdle /\ ScoreIdle /\ ParseIdle /\ AnalyzeIdle
  /\ RequestIdle /\ AdapterIdle /\ OuterIdle
NextSearch ==
  \/ SelectKeywordSearch /\ UNCHANGED OtherThanSelect
  \/ SelectTextSearch /\ UNCHANGED OtherThanSelect
  \/ SelectSkipTextSearch /\ UNCHANGED OtherThanSelect
  \/ SelectRank /\ UNCHANGED OtherThanSelect
  \/ SelectRealtime /\ UNCHANGED OtherThanSelect
  \/ UnifiedFetchDocuments /\ UNCHANGED OtherThanUnified
  \/ UnifiedFetchChunks /\ UNCHANGED OtherThanUnified
  \/ UnifiedFetchReturn /\ UNCHANGED OtherThanUnified
  \/ UnifiedScore /\ UNCHANGED OtherThanUnified
  \/ UnifiedRank /\ UNCHANGED OtherThanUnified
  \/ UnifiedOptimize /\ UNCHANGED OtherThanUnified
SpecSearch == InitSearch /\ [][NextSearch]_vars

OtherThanAdvanced == <<coreVars, krVars, spVars, cwVars, caVars>>
InitAdvanced == AdvancedInit /\ CoreIdle /\ RotationIdle /\ SplitIdle /\ ChatIdle
  /\ CacheIdle
NextAdvanced ==
  \/ AdvancedLimitStep /\ UNCHANGED OtherThanAdvanced
  \/ AdvancedLimitReturn /\ UNCHANGED OtherThanAdvanced
SpecAdvanced == InitAdvanced /\ [][NextAdvanced]_vars

OtherThanRotation == <<coreVars, avVars, spVars, cwVars, caVars>>
InitRotation == RotationInit /\ CoreIdle /\ AdvancedIdle /\ SplitIdle /\ ChatIdle
  /\ CacheIdle
NextRotation == GetNextAvailableKey /\ UNCHANGED OtherThanRotation
SpecRotation == InitRotation /\ [][NextRotation]_vars

OtherThanSplit == <<coreVars, avVars, krVars, cwVars, caVars>>
InitSplit == SplitInit /\ CoreIdle /\ AdvancedIdle /\ RotationIdle /\ ChatIdle
  /\ CacheIdle
NextSplit ==
  \/ SplitStep /\ UNCHANGED OtherThanSplit
  \/ SplitReturn /\ UNCHANGED OtherThanSplit
SpecSplit == InitSplit /\ [][NextSplit]_vars

OtherThanChat == <<coreVars, avVars, krVars, spVars, caVars>>
InitChat == ChatInit /\ CoreIdle /\ AdvancedIdle /\ RotationIdle /\ SplitIdle
  /\ CacheIdle
NextChat ==
  \/ ChatSend /\ UNCHANGED OtherThanChat
  \/ (\E r \in 1..Len(cwRequests) : ChatStreamOpens(r)) /\ UNCHANGED OtherThanChat
  \/ (\E r \in 1..Len(cwRequests) : ChatStreamChunk(r)) /\ UNCHANGED OtherThanChat
  \/ (\E r \in 1..Len(cwRequests) : ChatStreamEnds(r)) /\ UNCHANGED OtherThanChat
  \/ (\E r \in 1..Len(cwRequests) : ChatStreamFails(r)) /\ UNCHANGED OtherThanChat
  \/ ChatCancel /\ UNCHANGED OtherThanChat
SpecChat == InitChat /\ [][NextChat]_vars

OtherThanCache == <<coreVars, avVars, krVars, spVars, cwVars>>
InitCache == CacheInit /\ CoreIdle /\ AdvancedIdle /\ RotationIdle /\ SplitIdle
  /\ ChatIdle
NextCache ==
  \/ CacheClockAdvances /\ UNCHANGED OtherThanCache
  \/ GetCachedChunks /\ UNCHANGED OtherThanCache
  \/ SetCachedChunks /\ UNCHANGED OtherThanCache
  \/ ClearDocument /\ UNCHANGED OtherThanCache
SpecCache == InitCache /\ [][NextCache]_vars

----------------------------------------------------------------------------
(* Claims about the two searches (checked under SpecSearch)                 *)

SearchCalls == slCalls \o usCalls

SomeCallFailed == \E i \in 1..Len(SearchCalls) : SearchCalls[i].failed

EveryCallEmpty == \A i \in 1..Len(SearchCalls) : SearchCalls[i].returned = 0

SearchEnded == slPc = "returned" \/ usStage \in {"Done", "Aborted"}

\* how far a search has come: the position of the selection, or the stage
\* of the unified search and the position of its fetch loop
SearchProgress ==
  (CASE slPc = "idle" -> 0 [] slPc = "called" -> 1 [] slPc = "keyworded" -> 2
     [] slPc = "searched" -> 3 [] slPc = "returned" -> 4)
  + (CASE usStage = "Idle" -> 0 [] usStage = "Fetching" -> 1 + usDocIndex
       [] usStage = "Scoring" -> 5 [] usStage = "Ranking" -> 6
       [] usStage = "Optimizing" -> 7 [] usStage \in {"Done", "Aborted"} -> 8)

\* some step of the search can be taken: the guards of the steps of
\* NextSearch, each of which, once its guard holds, has a successor
SearchCanStep ==
  \/ SelectKeywordSearchReady \/ SelectTextSearchReady
  \/ SelectSkipTextSearchReady \/ SelectRankReady \/ SelectRealtimeReady
  \/ UnifiedFetchDocumentsReady \/ UnifiedFetchChunksReady
  \/ UnifiedFetchReturnReady \/ UnifiedScoreReady \/ UnifiedRankReady
  \/ UnifiedOptimizeReady

C14_EmptyStoreEmptyResult ==
  /\ (slPc = "returned" /\ EveryCallEmpty) => slResult = << <<>> >>
  /\ (usStage \in {"Done", "Aborted"} /\ EveryCallEmpty) =>
       /\ usStage = "Done"
       /\ usResult[1].chunks = <<>>

\* C25: for every outcome of the store calls the context selection returns
\* at most maxChunks chunks.
C25_AtMostMaxChunks ==
  slPc = "returned" => Len(slResult[1]) <= slMaxChunks

\* C19: no step of a search changes a stored chunk or document, the
\* caller's array of chunks, or the chunks fetched from the store: cutting
\* contents and attaching scores is done on copies.
C19_SearchOnlyReads ==
  [][/\ stChunks' = stChunks
     /\ stDocuments' = stDocuments
     /\ slAllChunks' = slAllChunks
     /\ usStage # "Fetching" => usAllChunks' = usAllChunks]_vars

\* the selection returned the caller's long chunk cut to the chunk length,
\* and the caller's chunk is as long as before
C19_Witness ==
  /\ slPc = "returned"
  /\ slFirestoreChunks = <<>>
  /\ Len(slAllChunks) > 0
  /\ ContentLength(slAllChunks[1].content) > MAX_CHUNK_LENGTH
  /\ \E i \in 1..Len(slResult[1]) :
       /\ slResult[1][i].id = slAllChunks[1].id
       /\ slResult[1][i].content.suffix = EllipsisLength

StageEdges ==
  {<<"Fetching", "Scoring">>, <<"Scoring", "Ranking">>,
   <<"Ranking", "Optimizing">>, <<"Optimizing", "Done">>,
   <<"Scoring", "Aborted">>}

\* C20: the unified search moves Fetching -> Scoring -> Ranking ->
\* Optimizing -> Done, one stage after the other and never back; store
\* failures do not abort it; when a stage raises the search is aborted with
\* that stage's error and returns nothing, and a result is returned only by
\* a search that is Done.
C20_LinearStages ==
  /\ [][usStage' # usStage => <<usStage, usStage'>> \in StageEdges]_vars
  /\ [](usStage = "Aborted" =>
          /\ usResult = <<>>
          /\ usError = "scoring"
          /\ ScoringThrows(usAllChunks, usAnalysis))
  /\ [](usResult # <<>> <=> usStage = "Done")
  /\ [](usStage \in {"Ranking", "Optimizing", "Done"} =>
          usError = "none" /\ ~ScoringThrows(usAllChunks, usAnalysis))

\* a search was aborted in the scoring after a fetch that found chunks
C20_Witness ==
  /\ usStage = "Aborted"
  /\ Len(usAllChunks) = 3
  /\ usError = "scoring"
  /\ usResult = <<>>


\* the candidates of the selection: what the searches (or, failing them, the
\* caller) gave, before the length limit
SelectCandidates == ChunksToUse(slFirestoreChunks, slAllChunks)

\* the selection returned chunks it ranked (not the forced parse's chunks
\* and not the placeholder)
SelectRanked == slPc = "returned" /\ Len(LimitedChunksToUse) # 0

\* C22: whenever a candidate d is left out of the returned context while a
\* chunk c is returned, d's relevance score is not greater than c's.
C22_HighestScoresFirst ==
  SelectRanked =>
    \A i \in 1..Len(SelectCandidates) : \A j \in 1..Len(slResult[1]) :
      LET d == SelectCandidates[i]
          c == slResult[1][j]
      IN  (\A k \in 1..Len(slResult[1]) : slResult[1][k].id # d.id) =>
            SelectionScore(slAnalysis, d).score
              <= SelectionScore(slAnalysis, c).score


----------------------------------------------------------------------------
(* Claims about the advanced search (checked under SpecAdvanced)            *)

\* the total content length of the first n chunks
RECURSIVE AdvancedTotal(_, _)
AdvancedTotal(chunks, n) ==
  IF n = 0 THEN 0
  ELSE AdvancedTotal(chunks, n - 1) + ContentLengthOrZero(chunks[n])

\* C23: the returned chunk list has a total content length of at most
\* MAX_CONTEXT_LENGTH (50,000): the chunks are kept in order up to the first
\* chunk that would push the running total over that limit.
C23_TotalWithinLimit ==
  avPc = "returned" =>
    /\ AdvancedTotal(avLimited, Len(avLimited)) <= ADVANCED_MAX_CONTEXT_LENGTH
    /\ avLimited = SubSeq(avChunks, 1, Len(avLimited))
    /\ Len(avLimited) < Len(avChunks) =>
         AdvancedTotal(avChunks, Len(avLimited) + 1) > ADVANCED_MAX_CONTEXT_LENGTH

----------------------------------------------------------------------------
(* Claims about the key rotation (checked under SpecRotation)               *)

\* the calls from..from+n-1 returned each of the pool's n credentials once
WindowIsPermutation(from, pool) ==
  {krSelected[from + k] : k \in 0..(Len(pool) - 1)} = Range(pool)

\* every n consecutive calls made so far returned each credential once
EveryWindowCycles(pool) ==
  \A from \in 1..(Len(krSelected) - Len(pool) + 1) :
    WindowIsPermutation(from, pool)

\* C24 as stated: after any sequence of getNextAvailableKey calls
\* 0 <= currentKeyIndex < pool size, and any n consecutive calls (n = pool
\* size) return each of the n credentials exactly once.
C24_RotationCycles ==
  krSelected # <<>> =>
    /\ 0 <= krIndex /\ krIndex < Len(ApiKeys(krEnv))
    /\ EveryWindowCycles(ApiKeys(krEnv))

\* C24, amended: with a non-empty pool 0 <= currentKeyIndex < pool size and
\* any n consecutive calls return each of the n credentials exactly once;
\* with an empty pool the index stays 0 and every call returns null.
C24_RotationCyclesNonEmptyPool ==
  krEnv # <<>> =>
    LET pool == ApiKeys(krEnv)
    IN  IF Len(pool) > 0
        THEN /\ 0 <= krIndex /\ krIndex < Len(pool)
             /\ EveryWindowCycles(pool)
             /\ krIndex = Len(krSelected) % Len(pool)
        ELSE /\ krIndex = 0
             /\ \A k \in 1..Len(krSelected) : krSelected[k] = 0

\* a pool of three credentials went round twice and started a third round
C24_Witness ==
  /\ krEnv # <<>>
  /\ ApiKeys(krEnv) = <<1, 3, 4>>
  /\ krSelected = <<1, 3, 4, 1, 3, 4, 1>>
  /\ krIndex = 1

----------------------------------------------------------------------------
(* Claims about the chunk splitter (checked under SpecSplit)                *)

\* C26: on a non-empty text the start position strictly increases on every
\* iteration: each chunk starts after the one before it, and the loop
\* variable is past the start of the last chunk (so the loop reaches the
\* end of the text after finitely many chunks).
C26_StartStrictlyIncreases ==
  spText.length > 0 =>
    /\ \A i \in 1..(Len(spChunks) - 1) :
         spChunks[i].startPos < spChunks[i + 1].startPos
    /\ spChunks # <<>> => spChunks[Len(spChunks)].startPos < spStart

----------------------------------------------------------------------------
(* Claims about the chat window (checked under SpecChat)                    *)

C28_NoChunkAfterCancel ==
  \A m \in 1..Len(cwMessages) : \A k \in 1..Len(cwMessages[m].content) :
    ~cwMessages[m].content[k].afterCancel

----------------------------------------------------------------------------
(* Claims about the cache (checked under SpecCache)                         *)

\* the entry a get found under its key
FoundByGet == caBefore[ChunksKey(caLast.documentId)]

\* a get returned content: it is the content of an entry of the current
\* version that is at most CACHE_EXPIRY old, and the entry is still there
ServedFresh ==
  (caLast.op = "get" /\ caLast.result # <<>>) =>
    /\ FoundByGet.k = "entry"
    /\ FoundByGet.version = CacheVersion
    /\ caNow - FoundByGet.timestamp <= CACHE_EXPIRY
    /\ caLast.result = <<FoundByGet.content>>
    /\ caStorage = caBefore

\* a set that stored its entry left, under its key, the content it was
\* given (as JSON gives it back) with the time of the call
StoredLatest ==
  (caLast.op = "set" /\ caLast.stored) =>
    /\ caStorage[ChunksKey(caLast.documentId)]
         = EntryItem(CacheVersion, caNow, JsonRoundTrip(caLast.content))
    /\ GetCache(caStorage, ChunksKey(caLast.documentId), caNow).result
         = <<JsonRoundTrip(caLast.content)>>

IsStale(item, now) ==
  IF item.k = "entry"
  THEN item.version # CacheVersion \/ now - item.timestamp > CACHE_EXPIRY
  ELSE item.k \in {"empty", "garbage"}

C30_ClearLeavesOthers ==
  caLast.op = "clear" =>
    /\ \A d \in DocumentIds \ {caLast.documentId} :
         GetCache(caStorage, ChunksKey(d), caNow).result
           = GetCache(caBefore, ChunksKey(d), caNow).result
    /\ \A key \in StorageKeys :
         ~IsCacheKey(key) => caStorage[key] = caBefore[key]

====
